---------------------------- MODULE Spec2Model ----------------------------
(***************************************************************************)
(* Model of the overlap checker of ukaea/overlap_checker: the worker pool  *)
(* helpers of thread_pool.hpp (parfor, asyncmap), the intersection         *)
(* classifier (classify_solid_intersection, shape_classifier) and the main *)
(* program of overlap_checker.cpp (bounding-box pass, pair scheduling,     *)
(* reporting loop, exit status).                                           *)
(*                                                                         *)
(* Units.  Lengths and volumes are integers.  Fuzzy values are counted in  *)
(* units of 1e-9, so the default ladder {0.001, 0} is <<1000000, 0>>.      *)
(* size_t counters are unsigned 64-bit: a decrement of 0 wraps around.     *)
(* The model keeps the counter as the integer congruent to it modulo 2^64  *)
(* that is nearest to zero, so -1 stands for 2^64 - 1; the code's tests    *)
(* "num_inflight > 0" and "num_inflight == 0" on the unsigned value are    *)
(* then "# 0" and "= 0" on the representative.                             *)
(***************************************************************************)
EXTENDS Integers, Sequences, FiniteSets

(***************************************************************************)
(* Bounds of the model.                                                    *)
(***************************************************************************)
MaxSolids == 3

MaxWorkers == 2

MaxLadder == 2

\* the most rows the pair list on std::cin holds
MaxRows == 2

\* the longest line handed to parse_csv_row
MaxChars == 6

\* the most vertices, edges and faces of the shape handed to the gluedetector
MaxVerts == 4

MaxEdges == 3

MaxFaces == 2

(***************************************************************************)
(* Program constants.                                                      *)
(***************************************************************************)
\* max_common_volume_ratio = 0.01, in percent
RatioPct == 1

\* the kernel's smallest fuzzy value, 1e-9
MinFuzzy == 1

\* the first value of the default ladder, 0.001
DefaultFuzzy == 1000000

\* the negative-volume limit is min(vol_cut, vol_cut12) * 0.1 = min / 10
NegLimitDiv == 10

\* exit status of a process ended by abort(): 128 + SIGABRT
AbortStatus == 134

\* value of the volume fields before an operation has set them (-1.0)
VolUnset == 0 - 1

VARIABLES
    \* configuration and document
    solid_shapes,      \* document::solid_shapes, a sequence of solids
    bbox_clearance,    \* --bbox-clearance
    fuzzy_values,      \* imprint_tolerances, the ladder
    num_workers,       \* num_parallel_jobs
    max_common_volume_ratio,   \* --max-common-volume-ratio, in hundredths
    \* thread_pool
    queue,             \* thread_pool::queue
    workers,           \* what each worker thread is executing
    \* parfor work
    pf_inflight,       \* parfor::num_inflight
    \* asyncmap map
    map_inflight,      \* asyncmap::num_inflight
    results,           \* asyncmap::results
    \* main
    pc,                \* position of the main thread
    idx,               \* i of the precomputation loop
    hi, lo,            \* loop indices of the scheduling loop
    bounding_boxes, volumes,
    counters,          \* num_bbox_tests .. num_bad_overlaps
    out,               \* rows written to std::cout
    exit_status,       \* value returned by main, -1 while running
    \* a separate consuming thread (asyncmap used from two threads)
    empty_ret,         \* what the last empty() call returned
    waiter,            \* where that thread is, and the condition variable
                       \* it is blocked on
    \* a single run of shape_classifier on given kernel answers
    cls_in, cls_out,
    \* a single call of parse_csv_row: the line and the fields returned
    csv_row, csv_fields,
    \* history
    ran,               \* thunks of the barrier group that have finished
    tested,            \* pairs handed to are_bboxs_disjoint, in order
    submitted,         \* pairs whose map.submit has begun, in order
    completed,         \* outputs in the order the tasks stored them
    taken,             \* outputs in the order get returned them
    threw,             \* pairs whose classification threw
    empty_snap,        \* tasks begun and not yet taken when empty() ran
    \* the geometry: what the kernel answers for each pair and attempt
    geometry,
    \* gluedetector: myOrigins and myImages, the loop of DetectVertices, and
    \* every call of myOrigins.Bind made so far
    myOrigins, myImages, flood, binds,
    \* the checker with a worker_queue: the queue, its worker threads, the
    \* locals of main, and who was handed which pair
    wq, threads, qmain, handed,
    \* thread_pool::running, and the helper objects already destroyed
    running, destroyed,
    \* the imprinter and the merger
    rows,              \* the rows of std::cin, each a sequence of fields
    nread,             \* the number of rows parse_next_row has returned
    failed_rows,       \* num_failed of imprint
    out_shapes,        \* out.solid_shapes of the merger
    written,           \* the document written to path_out, if any
    applied            \* the rows handled so far, with what each one did

vars == << solid_shapes, bbox_clearance, fuzzy_values, num_workers,
           max_common_volume_ratio, queue,
           workers, pf_inflight, map_inflight, results, pc, idx, hi, lo,
           bounding_boxes, volumes, counters, out, exit_status, empty_ret,
           waiter, cls_in, cls_out, csv_row, csv_fields, ran, tested, submitted, completed, taken, threw,
           empty_snap, geometry, myOrigins, myImages, flood, binds, wq, threads,
           qmain, handed, running, destroyed, rows, nread, failed_rows,
           out_shapes, written, applied >>

cfgVars ==
    << solid_shapes, bbox_clearance, fuzzy_values, num_workers,
       max_common_volume_ratio >>

clsVars == << cls_in, cls_out, csv_row, csv_fields >>

glueVars == << myOrigins, myImages, flood, binds >>

queueVars == << wq, threads, qmain, handed >>

toolVars ==
    << geometry, glueVars, queueVars, running, destroyed, rows, nread, failed_rows, out_shapes,
       written, applied >>

Min(a, b) == IF a < b THEN a ELSE b

(***************************************************************************)
(* The kernel.  What the CAD kernel answers during one call of             *)
(* classify_solid_intersection is an input of the model: whether the       *)
(* timeout observer expired during paving, whether each operation reported *)
(* errors, whether COMMON holds a solid, the volumes, and whether SECTION  *)
(* holds a vertex.                                                         *)
(***************************************************************************)
KA(ex, fe, ce, hs, vc, cue, vcut, c21e, vc12, se, hv) ==
    [ expired |-> ex, filler_err |-> fe, common_err |-> ce, has_solid |-> hs,
      vol_common |-> vc, cut_err |-> cue, vol_cut |-> vcut, cut21_err |-> c21e,
      vol_cut12 |-> vc12, section_err |-> se, has_vertex |-> hv ]

\* paving ran past the deadline (with or without filler errors)
K_timeout == KA(TRUE, FALSE, FALSE, FALSE, 0, FALSE, 0, FALSE, 0, FALSE, FALSE)

K_timeout_err == KA(TRUE, TRUE, FALSE, FALSE, 0, FALSE, 0, FALSE, 0, FALSE, FALSE)

\* the pave filler, COMMON, CUT, CUT21 or SECTION reports errors
K_filler_err == KA(FALSE, TRUE, FALSE, FALSE, 0, FALSE, 0, FALSE, 0, FALSE, FALSE)

K_common_err == KA(FALSE, FALSE, TRUE, FALSE, 0, FALSE, 0, FALSE, 0, FALSE, FALSE)

K_cut_err == KA(FALSE, FALSE, FALSE, TRUE, 3, TRUE, 0, FALSE, 0, FALSE, FALSE)

K_cut21_err == KA(FALSE, FALSE, FALSE, TRUE, 3, FALSE, 100, TRUE, 0, FALSE, FALSE)

K_section_err == KA(FALSE, FALSE, FALSE, FALSE, 0, FALSE, 0, FALSE, 0, TRUE, FALSE)

\* COMMON holds a solid of volume 3, 50 or 0
K_overlap == KA(FALSE, FALSE, FALSE, TRUE, 3, FALSE, 100, FALSE, 100, FALSE, FALSE)

K_overlap_big == KA(FALSE, FALSE, FALSE, TRUE, 50, FALSE, 100, FALSE, 100, FALSE, FALSE)

K_overlap_zero == KA(FALSE, FALSE, FALSE, TRUE, 0, FALSE, 100, FALSE, 100, FALSE, FALSE)

\* COMMON holds a solid of negative volume, at and beyond a tenth of the cuts
K_neg_small == KA(FALSE, FALSE, FALSE, TRUE, -10, FALSE, 100, FALSE, 100, FALSE, FALSE)

K_neg_large == KA(FALSE, FALSE, FALSE, TRUE, -11, FALSE, 100, FALSE, 100, FALSE, FALSE)

\* CUT holds a shape of negative volume
K_neg_cut == KA(FALSE, FALSE, FALSE, TRUE, 3, FALSE, -5, FALSE, 100, FALSE, FALSE)

\* COMMON holds no solid; SECTION holds a vertex, or none
K_touching == KA(FALSE, FALSE, FALSE, FALSE, 0, FALSE, 0, FALSE, 0, FALSE, TRUE)

K_distinct == KA(FALSE, FALSE, FALSE, FALSE, 0, FALSE, 0, FALSE, 0, FALSE, FALSE)

KernelAnswers ==
    { K_timeout, K_timeout_err, K_filler_err, K_common_err, K_cut_err,
      K_cut21_err, K_section_err, K_overlap, K_overlap_big, K_overlap_zero,
      K_neg_small, K_neg_large, K_neg_cut, K_touching, K_distinct }

\* the answers drawn for the pairs of a whole run of the program
MainAnswers ==
    { K_timeout, K_filler_err, K_overlap, K_neg_large, K_touching, K_distinct }

\* the answers drawn where only the async map is of interest
MapAnswers == { K_touching, K_distinct }

\* BOPAlgo_PaveFiller::FuzzyValue(): the value set, or the kernel's minimum
FuzzyValue(f) == IF f < MinFuzzy THEN MinFuzzy ELSE f

(***************************************************************************)
(* intersect_result and classify_solid_intersection.  The operator returns *)
(* [threw, result]: threw is TRUE when the call leaves by an exception.    *)
(***************************************************************************)
IR(status, fuzzy, vol_common, vol_cut, vol_cut12) ==
    [ status |-> status, fuzzy_value |-> fuzzy, vol_common |-> vol_common,
      vol_cut |-> vol_cut, vol_cut12 |-> vol_cut12 ]

Statuses == { "failed", "timeout", "distinct", "touching", "overlap" }

\* intersect_result result; of shape_classifier, before any assignment
UninitResult == IR("uninit", 0, VolUnset, VolUnset, VolUnset)

Returns(r) == [ threw |-> FALSE, result |-> r ]

Throws(r) == [ threw |-> TRUE, result |-> r ]

\* limit < -vol_common, with limit = min(vol_cut, vol_cut12) * 0.1
negative_volume_too_large_strict(vol_common, vol_cut, vol_cut12) ==
    Min(vol_cut, vol_cut12) <= NegLimitDiv * (0 - vol_common)

negative_volume_too_large(vol_common, vol_cut, vol_cut12) ==
    Min(vol_cut, vol_cut12) < NegLimitDiv * (0 - vol_common)

\* if (result.vol_common < 0)
common_is_negative_never(vol_common) == FALSE

common_is_negative(vol_common) == vol_common < 0

\* the tail of classify_solid_intersection once COMMON holds a solid
classify_common_solid(f, a) ==
    IF a.cut_err
    THEN Returns(IR("failed", f, a.vol_common, VolUnset, VolUnset))
    ELSE IF a.vol_cut < 0
    THEN Throws(IR("failed", f, a.vol_common, VolUnset, VolUnset))
    ELSE IF a.cut21_err
    THEN Returns(IR("failed", f, a.vol_common, a.vol_cut, VolUnset))
    ELSE IF a.vol_cut12 < 0
    THEN Throws(IR("failed", f, a.vol_common, a.vol_cut, VolUnset))
    ELSE IF common_is_negative(a.vol_common)
    THEN IF negative_volume_too_large(a.vol_common, a.vol_cut, a.vol_cut12)
         THEN Throws(IR("failed", f, a.vol_common, a.vol_cut, a.vol_cut12))
         ELSE Returns(IR("touching", f, a.vol_common, a.vol_cut, a.vol_cut12))
    ELSE Returns(IR("overlap", f, a.vol_common, a.vol_cut, a.vol_cut12))

classify_solid_intersection(fuzzy_value, a) ==
    LET f == FuzzyValue(fuzzy_value) IN
    IF a.expired
    THEN Returns(IR("timeout", f, VolUnset, VolUnset, VolUnset))
    ELSE IF a.filler_err \/ a.common_err
    THEN Returns(IR("failed", f, VolUnset, VolUnset, VolUnset))
    ELSE IF a.has_solid
    THEN classify_common_solid(f, a)
    ELSE IF a.section_err
    THEN Returns(IR("failed", f, VolUnset, VolUnset, VolUnset))
    ELSE IF a.has_vertex
    THEN Returns(IR("touching", f, VolUnset, VolUnset, VolUnset))
    ELSE Returns(IR("distinct", f, VolUnset, VolUnset, VolUnset))

(***************************************************************************)
(* shape_classifier: the retry loop over the ladder.  answers[k] is what   *)
(* the kernel answers to the k-th attempt.  The operator returns           *)
(* [threw, result, tried]: tried is the number of attempts made; threw     *)
(* means the attempt threw and the worker called abort().                  *)
(***************************************************************************)
\* if (result.status != intersect_status::failed) break;
stop_retrying_never(result) == FALSE

stop_retrying_unless_timeout(result) ==
    result.status \notin { "failed", "timeout" }

stop_retrying(result) == result.status # "failed"

RECURSIVE classifier_loop(_, _, _, _)
classifier_loop(ladder, answers, k, result) ==
    IF k > Len(ladder)
    THEN [ threw |-> FALSE, result |-> result, tried |-> k - 1 ]
    ELSE LET r == classify_solid_intersection(ladder[k], answers[k]) IN
         IF r.threw
         THEN [ threw |-> TRUE, result |-> result, tried |-> k ]
         ELSE IF stop_retrying(r.result)
         THEN [ threw |-> FALSE, result |-> r.result, tried |-> k ]
         ELSE classifier_loop(ladder, answers, k + 1, r.result)

shape_classifier(ladder, answers) ==
    classifier_loop(ladder, answers, 1, UninitResult)

(***************************************************************************)
(* Solids and oriented bounding boxes.  A solid is known to the model by   *)
(* the extent of its bounding box along one axis and by its volume.        *)
(* Bnd_OBB is a box that is void until a shape is added; Enlarge grows it  *)
(* on both sides, and IsOut is true of two boxes that are apart, and of    *)
(* any void box.                                                           *)
(***************************************************************************)
Solid(min, max, vol) == [ min |-> min, max |-> max, vol |-> vol ]

Solids == { Solid(0, 2, 400), Solid(3, 4, 200) }

Clearances == { 0, 1 }

VoidBox == [ void |-> TRUE, min |-> 0, max |-> 0 ]

\* BRepBndLib::AddOBB(shape, obb) on a void box
AddOBB(shape) == [ void |-> FALSE, min |-> shape.min, max |-> shape.max ]

\* volume_of_shape(shape), for the solids of a document
volume_of_shape(shape) == shape.vol

Enlarge(b, gap) ==
    IF b.void THEN b ELSE [ b EXCEPT !.min = @ - gap, !.max = @ + gap ]

IsOut(b1, b2) == b1.void \/ b2.void \/ b1.max < b2.min \/ b2.max < b1.min

are_bboxs_disjoint_no_clearance(b1, b2, tolerance) == IsOut(b1, b2)

are_bboxs_disjoint(b1, b2, tolerance) ==
    IF tolerance > 0
    THEN IsOut(Enlarge(b1, tolerance), Enlarge(b2, tolerance))
    ELSE IsOut(b1, b2)

(***************************************************************************)
(* thread_pool: a deque of tasks and worker threads that each take the     *)
(* task at the front and execute it.  A task of the model is               *)
(* [kind, hi, lo]: the thunk of solid hi of the barrier group, or the      *)
(* classification of the pair (hi, lo) of the async map.                   *)
(***************************************************************************)
Task(kind, h, l) == [ kind |-> kind, hi |-> h, lo |-> l ]

Idle == Task("idle", 0, 0)

N == Len(solid_shapes)

Running == pc \notin { "done", "aborted" }

\* thread_pool::submit(task)
pool_submit(q, task) == Append(q, task)

\* thread_pool::worker(): an idle worker takes the task at the front
WorkerTake(w) ==
    /\ Running
    /\ workers[w] = Idle
    /\ queue # << >>
    /\ workers' = [ workers EXCEPT ![w] = Head(queue) ]
    /\ queue' = Tail(queue)
    /\ UNCHANGED << cfgVars, clsVars, waiter, toolVars, pf_inflight, map_inflight, results, pc,
                    idx, hi, lo, bounding_boxes, volumes, counters, out,
                    exit_status, empty_ret, ran, tested, submitted, completed,
                    taken, threw, empty_snap >>

(***************************************************************************)
(* std::condition_variable, as seen by the one thread that may block on    *)
(* the helpers besides main: it is nowhere, blocked in cond.wait on a      *)
(* condition variable, woken and about to test its loop condition again,   *)
(* between two calls, or returned.                                         *)
(***************************************************************************)
WaiterAt(place) == [ at |-> place, cond |-> "none" ]

NoWaiter == WaiterAt("none")

\* cond.wait(mlock): the lock is released and the thread blocks
Blocked(cond) == [ at |-> "blocked", cond |-> cond ]

Woken(cond) == [ at |-> "woken", cond |-> cond ]

\* cond.notify_all(): a thread blocked on cond becomes runnable
notify_all(wt, cond) == IF wt = Blocked(cond) THEN Woken(cond) ELSE wt

\* cond.notify_one(): one of the threads blocked on cond becomes runnable
notify_one(wt, cond) == IF wt = Blocked(cond) THEN Woken(cond) ELSE wt

(***************************************************************************)
(* parfor.                                                                 *)
(***************************************************************************)
\* while (num_inflight > 0) cond.wait(mlock);  the loop is left when:
parfor_wait_returns_at_once(n) == TRUE

parfor_wait_returns(n) == n = 0

\* bounding_boxes[i] and volumes[i] of the thunk: entry i of the array
thunk_store_everywhere(arr, i, v) == [ k \in 1 .. Len(arr) |-> v ]

thunk_store(arr, i, v) == [ arr EXCEPT ![i + 1] = v ]

\* the lambda of parfor::submit with the thunk of main, lines 253-257:
\* fn() fills entry i of the two arrays, then num_inflight -= 1 and
\* cond.notify_all() under the lock
RunThunk(w) ==
    /\ Running
    /\ workers[w].kind = "thunk"
    /\ LET i == workers[w].hi
           shape == solid_shapes[i + 1]
       IN /\ bounding_boxes' = thunk_store(bounding_boxes, i, AddOBB(shape))
          /\ volumes' = thunk_store(volumes, i, volume_of_shape(shape))
          /\ ran' = ran \cup { i }
    /\ pf_inflight' = pf_inflight - 1
    /\ waiter' = notify_all(waiter, "parfor.cond")
    /\ workers' = [ workers EXCEPT ![w] = Idle ]
    /\ UNCHANGED << cfgVars, clsVars, toolVars, queue, map_inflight, results, pc, idx,
                    hi, lo, counters, out, exit_status, empty_ret, tested,
                    submitted, completed, taken, threw, empty_snap >>

\* main, lines 250-259: work.submit(pool, ...) up to the return of pool.submit
PfSubmit ==
    /\ pc = "pf_submit"
    /\ idx < N
    /\ queue' = pool_submit(queue, Task("thunk", idx, 0))
    /\ pc' = "pf_count"
    /\ UNCHANGED << cfgVars, clsVars, waiter, toolVars, workers, pf_inflight, map_inflight,
                    results, idx, hi, lo, bounding_boxes, volumes, counters,
                    out, exit_status, empty_ret, ran, tested, submitted,
                    completed, taken, threw, empty_snap >>

\* parfor::submit, lines 67-68, and i += 1 of main
PfCount ==
    /\ pc = "pf_count"
    /\ pf_inflight' = pf_inflight + 1
    /\ idx' = idx + 1
    /\ pc' = "pf_submit"
    /\ UNCHANGED << cfgVars, clsVars, waiter, toolVars, queue, workers, map_inflight, results,
                    hi, lo, bounding_boxes, volumes, counters, out,
                    exit_status, empty_ret, ran, tested, submitted, completed,
                    taken, threw, empty_snap >>

\* the end of the for loop: the block is left and ~parfor calls wait()
PfLoopEnd ==
    /\ pc = "pf_submit"
    /\ idx >= N
    /\ pc' = "pf_wait"
    /\ UNCHANGED << cfgVars, clsVars, waiter, toolVars, queue, workers, pf_inflight,
                    map_inflight, results, idx, hi, lo, bounding_boxes,
                    volumes, counters, out, exit_status, empty_ret, ran,
                    tested, submitted, completed, taken, threw, empty_snap >>

\* parfor::wait returns and the barrier group is gone; main goes on to the
\* scheduling loop with hi = 1
PfWait ==
    /\ pc = "pf_wait"
    /\ parfor_wait_returns(pf_inflight)
    /\ destroyed' = destroyed \cup { "parfor" }
    /\ pc' = "sched"
    /\ hi' = 1
    /\ lo' = 0
    /\ UNCHANGED << cfgVars, clsVars, waiter, geometry, glueVars, queueVars, running, rows, nread,
                    failed_rows, out_shapes, written, applied, queue, workers,
                    pf_inflight, map_inflight, results, idx, bounding_boxes,
                    volumes, counters, out, exit_status, empty_ret, ran,
                    tested, submitted, completed, taken, threw, empty_snap >>

(***************************************************************************)
(* asyncmap<worker_output>.                                                *)
(***************************************************************************)
Output(h, l, result) == [ hi |-> h, lo |-> l, result |-> result ]

\* return results.empty() && num_inflight == 0;
asyncmap_empty_results_only(res, inflight) == res = << >>

asyncmap_empty(res, inflight) == res = << >> /\ inflight = 0

\* auto result = results.front(); of asyncmap::get
asyncmap_get_back(res) == res[Len(res)]

asyncmap_get(res) == Head(res)

\* results.pop_front(); of asyncmap::get
asyncmap_pop_all(res) == << >>

asyncmap_pop(res) == Tail(res)

\* tasks whose submit has begun and whose result get has not yet returned
Outstanding == Len(submitted) - Len(taken)

\* cond_res.notify_one(); if (num_inflight == 0) cond_done.notify_all();
map_notify(wt, inflight) ==
    IF inflight = 0
    THEN notify_all(notify_one(wt, "cond_res"), "cond_done")
    ELSE notify_one(wt, "cond_res")

\* the lambda of asyncmap::submit, lines 105-115, around shape_classifier:
\* the pair is classified; a throw makes the worker abort() the process,
\* otherwise the result is stored under the lock
RunClassifyWith(w, answer_seqs) ==
    /\ Running
    /\ workers[w].kind = "classify"
    /\ \E answers \in answer_seqs :
         LET t == workers[w]
             r == shape_classifier(fuzzy_values, answers)
             o == Output(t.hi, t.lo, r.result)
         IN IF r.threw
            THEN /\ pc' = "aborted"
                 /\ exit_status' = AbortStatus
                 /\ threw' = threw \cup { << t.hi, t.lo >> }
                 /\ UNCHANGED << map_inflight, results, completed, workers,
                                 waiter >>
            ELSE /\ map_inflight' = map_inflight - 1
                 /\ results' = Append(results, o)
                 /\ waiter' = map_notify(waiter, map_inflight - 1)
                 /\ completed' = Append(completed, o)
                 /\ workers' = [ workers EXCEPT ![w] = Idle ]
                 /\ UNCHANGED << pc, threw, exit_status >>
    /\ UNCHANGED << cfgVars, clsVars, toolVars, queue, pf_inflight, idx, hi, lo,
                    bounding_boxes, volumes, counters, out, empty_ret, ran,
                    tested, submitted, taken, empty_snap >>

\* the kernel answers each attempt with any answer of the set kernel
RunClassifyOn(w, kernel) ==
    RunClassifyWith(w, [ 1 .. Len(fuzzy_values) -> kernel ])

RunClassify(w) == RunClassifyOn(w, MainAnswers)

RunClassifyMap(w) == RunClassifyOn(w, MapAnswers)

(***************************************************************************)
(* main: the scheduling loop, lines 275-291.                               *)
(***************************************************************************)
\* the pair after (h, l) in the nested for loops
next_hi(h, l) == IF l + 1 < h THEN h ELSE h + 1

next_lo(h, l) == IF l + 1 < h THEN l + 1 ELSE 0

\* a pair whose boxes are disjoint: continue
SchedSkip ==
    /\ pc = "sched"
    /\ hi < N
    /\ are_bboxs_disjoint(bounding_boxes[hi + 1], bounding_boxes[lo + 1],
                          bbox_clearance)
    /\ counters' = [ counters EXCEPT !.bbox_tests = @ + 1 ]
    /\ tested' = Append(tested, << hi, lo >>)
    /\ hi' = next_hi(hi, lo)
    /\ lo' = next_lo(hi, lo)
    /\ UNCHANGED << cfgVars, clsVars, waiter, toolVars, queue, workers, pf_inflight,
                    map_inflight, results, pc, idx, bounding_boxes, volumes,
                    out, exit_status, empty_ret, ran, submitted, completed,
                    taken, threw, empty_snap >>

\* a pair whose boxes are not disjoint: map.submit up to the return of
\* pool.submit, asyncmap::submit lines 105-115
SchedSubmit ==
    /\ pc = "sched"
    /\ hi < N
    /\ ~ are_bboxs_disjoint(bounding_boxes[hi + 1], bounding_boxes[lo + 1],
                            bbox_clearance)
    /\ counters' = [ counters EXCEPT !.bbox_tests = @ + 1 ]
    /\ tested' = Append(tested, << hi, lo >>)
    /\ queue' = pool_submit(queue, Task("classify", hi, lo))
    /\ submitted' = Append(submitted, << hi, lo >>)
    /\ pc' = "map_count"
    /\ UNCHANGED << cfgVars, clsVars, waiter, toolVars, workers, pf_inflight, map_inflight,
                    results, idx, hi, lo, bounding_boxes, volumes, out,
                    exit_status, empty_ret, ran, completed, taken, threw,
                    empty_snap >>

\* asyncmap::submit lines 117-118, then num_to_process += 1 and the next pair
MapCount ==
    /\ pc = "map_count"
    /\ map_inflight' = map_inflight + 1
    /\ counters' = [ counters EXCEPT !.to_process = @ + 1 ]
    /\ hi' = next_hi(hi, lo)
    /\ lo' = next_lo(hi, lo)
    /\ pc' = "sched"
    /\ UNCHANGED << cfgVars, clsVars, waiter, toolVars, queue, workers, pf_inflight, results,
                    idx, bounding_boxes, volumes, out, exit_status, empty_ret,
                    ran, tested, submitted, completed, taken, threw,
                    empty_snap >>

\* the end of the outer for loop
SchedEnd ==
    /\ pc = "sched"
    /\ hi >= N
    /\ pc' = "drain"
    /\ UNCHANGED << cfgVars, clsVars, waiter, toolVars, queue, workers, pf_inflight,
                    map_inflight, results, idx, hi, lo, bounding_boxes,
                    volumes, counters, out, exit_status, empty_ret, ran,
                    tested, submitted, completed, taken, threw, empty_snap >>

(***************************************************************************)
(* main: the reporting loop, lines 298-382, and the exit, lines 393-402.   *)
(***************************************************************************)
\* vol_common > max_overlap, max_overlap = min(volumes[hi], volumes[lo]) * ratio
is_bad_overlap(vol_common, vol_hi, vol_lo) ==
    vol_common * 100 > Min(vol_hi, vol_lo) * max_common_volume_ratio

overlap_state(o, vols) ==
    IF is_bad_overlap(o.result.vol_common, vols[o.hi + 1], vols[o.lo + 1])
    THEN "bad_overlap"
    ELSE "overlap"

\* the rows the switch writes to std::cout for one output
RowsFor_no_touch(o, vols) ==
    IF o.result.status = "overlap"
    THEN << << o.hi, o.lo, overlap_state(o, vols), o.result.vol_common,
               vols[o.hi + 1], vols[o.lo + 1] >> >>
    ELSE << >>

RowsFor(o, vols) ==
    CASE o.result.status = "touching" -> << << o.hi, o.lo, "touch" >> >>
      [] o.result.status = "overlap" ->
            << << o.hi, o.lo, overlap_state(o, vols), o.result.vol_common,
                  vols[o.hi + 1], vols[o.lo + 1] >> >>
      [] OTHER -> << >>

CountersAfter_failed_uncounted(c, o, vols) ==
    LET c1 == [ c EXCEPT !.processed = @ + 1 ]
        st == o.result.status
    IN CASE st = "timeout" -> [ c1 EXCEPT !.failed = @ + 1 ]
         [] st = "touching" -> [ c1 EXCEPT !.touching = @ + 1 ]
         [] st = "overlap" /\ overlap_state(o, vols) = "bad_overlap" ->
               [ c1 EXCEPT !.bad_overlaps = @ + 1 ]
         [] st = "overlap" /\ overlap_state(o, vols) = "overlap" ->
               [ c1 EXCEPT !.overlaps = @ + 1 ]
         [] OTHER -> c1

\* the counters after num_processed += 1 and the switch
CountersAfter(c, o, vols) ==
    LET c1 == [ c EXCEPT !.processed = @ + 1 ]
        st == o.result.status
    IN CASE st \in { "failed", "timeout" } -> [ c1 EXCEPT !.failed = @ + 1 ]
         [] st = "touching" -> [ c1 EXCEPT !.touching = @ + 1 ]
         [] st = "overlap" /\ overlap_state(o, vols) = "bad_overlap" ->
               [ c1 EXCEPT !.bad_overlaps = @ + 1 ]
         [] st = "overlap" /\ overlap_state(o, vols) = "overlap" ->
               [ c1 EXCEPT !.overlaps = @ + 1 ]
         [] OTHER -> c1

\* if (num_failed || num_bad_overlaps) return 1;  return 0;
ExitCode_failed_only(num_failed, num_bad_overlaps) ==
    IF num_failed # 0 THEN 1 ELSE 0

ExitCode(num_failed, num_bad_overlaps) ==
    IF num_failed # 0 \/ num_bad_overlaps # 0 THEN 1 ELSE 0

\* while (!map.empty()): the map is not empty, main calls get
DrainMore ==
    /\ pc = "drain"
    /\ ~ asyncmap_empty(results, map_inflight)
    /\ empty_ret' = "false"
    /\ empty_snap' = Outstanding
    /\ pc' = "get"
    /\ UNCHANGED << cfgVars, clsVars, waiter, toolVars, queue, workers, pf_inflight,
                    map_inflight, results, idx, hi, lo, bounding_boxes,
                    volumes, counters, out, exit_status, ran, tested,
                    submitted, completed, taken, threw >>

\* map.get() returns, and the body of the loop handles the output
Get ==
    /\ pc = "get"
    /\ results # << >>
    /\ LET o == asyncmap_get(results)
       IN /\ taken' = Append(taken, o)
          /\ counters' = CountersAfter(counters, o, volumes)
          /\ out' = out \o RowsFor(o, volumes)
    /\ results' = asyncmap_pop(results)
    /\ pc' = "drain"
    /\ UNCHANGED << cfgVars, clsVars, waiter, toolVars, queue, workers, pf_inflight,
                    map_inflight, idx, hi, lo, bounding_boxes, volumes,
                    exit_status, empty_ret, ran, tested, submitted, completed,
                    threw, empty_snap >>

\* while (!map.empty()): the map is empty, the loop ends and main returns
DrainEnd ==
    /\ pc = "drain"
    /\ asyncmap_empty(results, map_inflight)
    /\ empty_ret' = "true"
    /\ empty_snap' = Outstanding
    /\ exit_status' = ExitCode(counters.failed, counters.bad_overlaps)
    /\ pc' = "done"
    /\ UNCHANGED << cfgVars, clsVars, waiter, toolVars, queue, workers, pf_inflight,
                    map_inflight, results, idx, hi, lo, bounding_boxes,
                    volumes, counters, out, ran, tested, submitted, completed,
                    taken, threw >>

(***************************************************************************)
(* The async map used by two threads: main submits, and a consuming thread *)
(* calls empty() and get() while it does.                                  *)
(***************************************************************************)
ConsumerEmpty ==
    /\ pc \in { "sched", "map_count", "drain" }
    /\ empty_ret' = IF asyncmap_empty(results, map_inflight)
                    THEN "true" ELSE "false"
    /\ empty_snap' = Outstanding
    /\ UNCHANGED << cfgVars, clsVars, waiter, toolVars, queue, workers, pf_inflight,
                    map_inflight, results, pc, idx, hi, lo, bounding_boxes,
                    volumes, counters, out, exit_status, ran, tested,
                    submitted, completed, taken, threw >>

ConsumerGet ==
    /\ pc \in { "sched", "map_count", "drain" }
    /\ results # << >>
    /\ taken' = Append(taken, asyncmap_get(results))
    /\ results' = asyncmap_pop(results)
    /\ UNCHANGED << cfgVars, clsVars, waiter, toolVars, queue, workers, pf_inflight,
                    map_inflight, pc, idx, hi, lo, bounding_boxes, volumes,
                    counters, out, exit_status, empty_ret, ran, tested,
                    submitted, completed, threw, empty_snap >>

(***************************************************************************)
(* One run of shape_classifier on a ladder and the kernel's answers.       *)
(***************************************************************************)
NoRun == [ threw |-> FALSE, result |-> UninitResult, tried |-> 0 ]

ClsRun ==
    /\ pc = "cls"
    /\ cls_out' = shape_classifier(fuzzy_values, cls_in)
    /\ pc' = "cls_done"
    /\ UNCHANGED << cfgVars, waiter, cls_in, csv_row, csv_fields, toolVars,
                    queue, workers, pf_inflight,
                    map_inflight, results, idx, hi, lo, bounding_boxes,
                    volumes, counters, out, exit_status, empty_ret, ran,
                    tested, submitted, completed, taken, threw, empty_snap >>

(***************************************************************************)
(* Initial states and specifications.                                      *)
(***************************************************************************)
Docs == UNION { [ 1 .. n -> Solids ] : n \in 0 .. MaxSolids }

FuzzySet == { 0, DefaultFuzzy }

Ladders == UNION { [ 1 .. n -> FuzzySet ] : n \in 1 .. MaxLadder }

\* std::vector<double> imprint_tolerances = {0.001, 0};
DefaultLadder == << DefaultFuzzy, 0 >>

\* path_out before write_brep_file has been called
NotWritten == [ done |-> FALSE, doc |-> << >> ]

ZeroCounters ==
    [ bbox_tests |-> 0, to_process |-> 0, processed |-> 0, failed |-> 0,
      touching |-> 0, overlaps |-> 0, bad_overlaps |-> 0 ]

\* TColStd_MapOfInteger processed; and the locals of one flood fill
NoFlood ==
    [ i_vertex |-> 1, processed |-> { }, filling |-> FALSE,
      processing |-> { }, result |-> { } ]

\* the gluedetector has not been constructed
InitNoGlue ==
    /\ myOrigins = << >>
    /\ myImages = << >>
    /\ flood = NoFlood
    /\ binds = << >>

\* the locals of main that belong to the worker_queue
NoQueueMain == [ remain |-> 0, launched |-> 0, joined |-> 0, wait |-> "no" ]

\* no worker_queue has been constructed and no thread launched
InitNoQueue ==
    /\ wq = [ input |-> << >>, output |-> << >> ]
    /\ threads = << >>
    /\ qmain = NoQueueMain
    /\ handed = << >>

\* the imprinter and the merger have not run
InitNoTool ==
    /\ rows = << >>
    /\ nread = 0
    /\ failed_rows = 0
    /\ out_shapes = << >>
    /\ written = NotWritten
    /\ applied = << >>

\* parse_csv_row has not been called
InitNoCsv ==
    /\ csv_row = << >>
    /\ csv_fields = << >>

\* nothing has been submitted, counted or printed
InitNoPool ==
    /\ InitNoCsv
    /\ queue = << >>
    /\ pf_inflight = 0
    /\ map_inflight = 0
    /\ results = << >>
    /\ counters = ZeroCounters
    /\ out = << >>
    /\ exit_status = 0 - 1
    /\ empty_ret = "none"
    /\ waiter = NoWaiter
    /\ empty_snap = 0
    /\ tested = << >>
    /\ submitted = << >>
    /\ completed = << >>
    /\ taken = << >>
    /\ threw = { }
    /\ running = TRUE
    /\ destroyed = { }
    /\ InitNoTool

InitIdle ==
    /\ InitNoPool
    /\ workers = [ w \in 1 .. num_workers |-> Idle ]

InitCommon ==
    /\ InitIdle
    /\ geometry = << >>
    /\ InitNoGlue
    /\ InitNoQueue

\* main after the document is loaded and the pool is constructed, line 247
Init ==
    /\ solid_shapes \in Docs
    /\ bbox_clearance \in Clearances
    /\ max_common_volume_ratio = RatioPct
    /\ fuzzy_values = DefaultLadder
    /\ num_workers \in 1 .. MaxWorkers
    /\ InitCommon
    /\ pc = "pf_submit"
    /\ idx = 0
    /\ hi = 0
    /\ lo = 0
    /\ bounding_boxes = [ i \in 1 .. Len(solid_shapes) |-> VoidBox ]
    /\ volumes = [ i \in 1 .. Len(solid_shapes) |-> 0 ]
    /\ ran = { }
    /\ cls_in = << >>
    /\ cls_out = NoRun

Next ==
    \/ PfSubmit
    \/ PfCount
    \/ PfLoopEnd
    \/ PfWait
    \/ SchedSkip
    \/ SchedSubmit
    \/ MapCount
    \/ SchedEnd
    \/ DrainMore
    \/ Get
    \/ DrainEnd
    \/ \E w \in 1 .. num_workers : WorkerTake(w)
    \/ \E w \in 1 .. num_workers : RunThunk(w)
    \/ \E w \in 1 .. num_workers : RunClassify(w)

Spec == Init /\ [][Next]_vars

\* the async map as constructed at line 273, used by two threads
InitMap ==
    /\ solid_shapes \in Docs
    /\ bbox_clearance \in Clearances
    /\ max_common_volume_ratio = RatioPct
    /\ fuzzy_values = DefaultLadder
    /\ num_workers \in 1 .. MaxWorkers
    /\ InitCommon
    /\ pc = "sched"
    /\ idx = Len(solid_shapes)
    /\ hi = 1
    /\ lo = 0
    /\ bounding_boxes = [ i \in 1 .. Len(solid_shapes) |->
                            AddOBB(solid_shapes[i]) ]
    /\ volumes = [ i \in 1 .. Len(solid_shapes) |->
                     volume_of_shape(solid_shapes[i]) ]
    /\ ran = 0 .. Len(solid_shapes) - 1
    /\ cls_in = << >>
    /\ cls_out = NoRun

NextMap ==
    \/ SchedSkip
    \/ SchedSubmit
    \/ MapCount
    \/ SchedEnd
    \/ ConsumerEmpty
    \/ ConsumerGet
    \/ \E w \in 1 .. num_workers : WorkerTake(w)
    \/ \E w \in 1 .. num_workers : RunClassifyMap(w)

SpecMap == InitMap /\ [][NextMap]_vars

\* shape_classifier applied to every ladder and every sequence of answers
InitCls ==
    /\ solid_shapes = << >>
    /\ bbox_clearance = 0
    /\ max_common_volume_ratio = RatioPct
    /\ fuzzy_values \in Ladders
    /\ num_workers = 1
    /\ InitCommon
    /\ pc = "cls"
    /\ idx = 0
    /\ hi = 0
    /\ lo = 0
    /\ bounding_boxes = << >>
    /\ volumes = << >>
    /\ ran = { }
    /\ cls_in \in [ 1 .. Len(fuzzy_values) -> KernelAnswers ]
    /\ cls_out = NoRun

NextCls == ClsRun

SpecCls == InitCls /\ [][NextCls]_vars

(***************************************************************************)
(* Properties.                                                             *)
(***************************************************************************)
PairOf(o) == << o.hi, o.lo >>

TakenWith(statuses) ==
    { i \in 1 .. Len(taken) : taken[i].result.status \in statuses }

RowsOf(pair) ==
    { i \in 1 .. Len(out) : out[i][1] = pair[1] /\ out[i][2] = pair[2] }

\* C1: on the async map used by a submitting and a consuming thread, the
\* results returned by get so far followed by the results still buffered are
\* exactly the results in the order the tasks completed; so every result is
\* returned once, none is lost, and get follows completion order
C1_CompletionOrder ==
    /\ completed = taken \o results
    /\ \A i, j \in 1 .. Len(taken) : i # j => taken[i] # taken[j]
    /\ \A i \in 1 .. Len(completed) :
         \E k \in 1 .. Len(submitted) : submitted[k] = PairOf(completed[i])

\* two results were returned, the first of them from the pair submitted second
C1_Witness ==
    /\ Len(taken) >= 2
    /\ Len(submitted) >= 2
    /\ PairOf(taken[1]) = submitted[2]
    /\ PairOf(taken[2]) = submitted[1]

\* C2: every call of empty() returns true exactly when no task whose submit
\* has begun is still waiting for get to return its result
C2_EmptyExact ==
    empty_ret # "none" => (empty_ret = "true" <=> empty_snap = 0)

\* C3: once wait of the barrier group has returned, every thunk submitted to
\* the group has finished
C3_WaitAfterAll ==
    pc \in { "sched", "map_count", "drain", "get", "done", "aborted" }
        => ran = 0 .. (N - 1)

\* wait has just returned for a group of at least two thunks
C3_Witness ==
    /\ pc = "sched"
    /\ N >= 2
    /\ tested = << >>
    /\ ran = 0 .. (N - 1)

\* what the k-th attempt of a run of shape_classifier on cls_in yields
Attempt(k) == classify_solid_intersection(fuzzy_values[k], cls_in[k])

FailedAttempt(k) == ~ Attempt(k).threw /\ Attempt(k).result.status = "failed"

\* C4: the classifier makes attempts 1 .. tried in ladder order; all attempts
\* before the last one made returned Failed; the result is the result of the
\* last attempt made; and it is Failed only if the whole ladder was tried
C4_FirstNonFailed ==
    (pc = "cls_done" /\ ~ cls_out.threw) =>
        /\ cls_out.tried \in 1 .. Len(fuzzy_values)
        /\ \A j \in 1 .. (cls_out.tried - 1) : FailedAttempt(j)
        /\ ~ Attempt(cls_out.tried).threw
        /\ cls_out.result = Attempt(cls_out.tried).result
        /\ cls_out.result.fuzzy_value = FuzzyValue(fuzzy_values[cls_out.tried])
        /\ (cls_out.result.status = "failed"
               => cls_out.tried = Len(fuzzy_values))
        /\ cls_out.result.status \in Statuses

\* the first value failed and the second one decided the result
C4_Witness ==
    /\ pc = "cls_done"
    /\ Len(fuzzy_values) = 2
    /\ cls_out.tried = 2
    /\ fuzzy_values[1] # fuzzy_values[2]
    /\ cls_out.result.status = "overlap"

\* C5: when paving runs past the time limit in an attempt the classifier
\* reaches, the result is Timeout, no later operation of that attempt has set
\* a volume, and that attempt is the last one made
C5_TimeoutTerminal ==
    pc = "cls_done" =>
        \A k \in 1 .. Len(fuzzy_values) :
            (cls_in[k].expired /\ \A j \in 1 .. (k - 1) : FailedAttempt(j))
                => /\ ~ cls_out.threw
                   /\ cls_out.result.status = "timeout"
                   /\ cls_out.result.vol_common = VolUnset
                   /\ cls_out.result.vol_cut = VolUnset
                   /\ cls_out.result.vol_cut12 = VolUnset
                   /\ cls_out.tried = k

\* paving timed out at the first of two values, and one attempt was made
C5_Witness ==
    /\ pc = "cls_done"
    /\ Len(fuzzy_values) = 2
    /\ cls_in[1].expired
    /\ cls_out.tried = 1
    /\ cls_out.result.status = "timeout"

\* every pair submitted has been returned by get, once
AllReported ==
    /\ Len(taken) = Len(submitted)
    /\ \A k \in 1 .. Len(submitted) :
         Cardinality({ i \in 1 .. Len(taken) : PairOf(taken[i]) = submitted[k] })
             = 1

NegativeTooLarge(a) ==
    /\ ~ a.expired /\ ~ a.filler_err /\ ~ a.common_err
    /\ a.has_solid /\ ~ a.cut_err /\ ~ a.cut21_err
    /\ a.vol_cut >= 0 /\ a.vol_cut12 >= 0
    /\ a.vol_common < 0
    /\ 10 * (0 - a.vol_common) > Min(a.vol_cut, a.vol_cut12)

\* a cut whose volume the kernel reports as negative
NegativeCut(a) ==
    /\ ~ a.expired /\ ~ a.filler_err /\ ~ a.common_err /\ a.has_solid
    /\ ~ a.cut_err
    /\ a.vol_cut < 0 \/ (~ a.cut21_err /\ a.vol_cut12 < 0)

Reached(k) == \A j \in 1 .. (k - 1) : FailedAttempt(j)

\* C7 as claimed: an attempt that meets a too large negative common volume
\* makes the pair's result Failed
C7_NegativeVolumeFails ==
    pc = "cls_done" =>
        \A k \in 1 .. Len(fuzzy_values) :
            (Reached(k) /\ NegativeTooLarge(cls_in[k]))
                => ~ cls_out.threw /\ cls_out.result.status = "failed"

\* C7 amended: an attempt that meets a too large negative common volume
\* throws, the worker aborts the process and no result is returned for the
\* pair; the classifier throws in no other case than this and a negative cut
\* volume
C7_NegativeVolumeAborts ==
    pc = "cls_done" =>
        /\ \A k \in 1 .. Len(fuzzy_values) :
             (Reached(k) /\ NegativeTooLarge(cls_in[k]))
                 => cls_out.threw /\ cls_out.tried = k
        /\ cls_out.threw =>
             \/ NegativeTooLarge(cls_in[cls_out.tried])
             \/ NegativeCut(cls_in[cls_out.tried])

\* the first attempt met a common volume of -11 with cuts of volume 100
C7_Witness ==
    /\ pc = "cls_done"
    /\ cls_in[1] = K_neg_large
    /\ cls_out.threw
    /\ cls_out.tried = 1

HasBadRow == \E i \in 1 .. Len(out) : out[i][3] = "bad_overlap"

C9_RowPerNonDistinct ==
    Len(out) = Cardinality(TakenWith(Statuses \ { "distinct" }))

\* C9 amended: one row is printed for every consumed result whose status is
\* Touching or Overlap, and none for a Distinct, Failed or Timeout result
C9_RowPerTouchOrOverlap ==
    /\ Len(out) = Cardinality(TakenWith({ "touching", "overlap" }))
    /\ \A i \in 1 .. Len(taken) :
         Cardinality(RowsOf(PairOf(taken[i]))) =
            IF taken[i].result.status \in { "touching", "overlap" }
            THEN 1 ELSE 0
    /\ \A i \in 1 .. Len(out) :
         \E k \in 1 .. Len(taken) :
            /\ PairOf(taken[k]) = << out[i][1], out[i][2] >>
            /\ out[i][3] = "touch" <=> taken[k].result.status = "touching"

\* a Touching, a Distinct and a Failed result were all consumed
C9_Witness ==
    /\ TakenWith({ "touching" }) # { }
    /\ TakenWith({ "distinct" }) # { }
    /\ TakenWith({ "failed" }) # { }
    /\ Len(out) = 1

\* the pairs (i, j) with 0 <= j < i < n, by i and then by j
RECURSIVE PairsBelow(_)
PairsBelow(n) ==
    IF n <= 1
    THEN << >>
    ELSE PairsBelow(n - 1) \o [ j \in 1 .. (n - 1) |-> << n - 1, j - 1 >> ]

\* the boxes of the two solids, each grown by the clearance, are not apart
Near(pair) ==
    LET a == solid_shapes[pair[1] + 1]
        b == solid_shapes[pair[2] + 1]
        c == bbox_clearance
    IN ~ (a.max + c < b.min - c \/ b.max + c < a.min - c)

\* C10: the pairs tested so far are an initial part of the pairs (i, j) with
\* 0 <= j < i < N, each once; the pairs submitted are those of them whose
\* inflated boxes are not disjoint, each once; and when the loop has ended
\* all N (N - 1) / 2 pairs have been tested
C10_PairsScheduled ==
    pc \notin { "pf_submit", "pf_count", "pf_wait" } =>
        /\ Len(tested) <= Len(PairsBelow(N))
        /\ tested = SubSeq(PairsBelow(N), 1, Len(tested))
        /\ submitted = SelectSeq(tested, Near)
        /\ counters.bbox_tests = Len(tested)
        /\ \A k \in 1 .. Len(tested) :
             /\ 0 <= tested[k][2]
             /\ tested[k][2] < tested[k][1]
             /\ tested[k][1] < N
        /\ pc \in { "drain", "get", "done" } =>
              /\ tested = PairsBelow(N)
              /\ 2 * Len(tested) = N * (N - 1)

\* the loop has ended on three solids, two pairs skipped and one submitted
C10_Witness ==
    /\ pc = "drain"
    /\ N = 3
    /\ Len(tested) = 3
    /\ Len(submitted) = 1
    /\ counters.to_process = 1

(***************************************************************************)
(* The program on a fixed geometry.  The kernel is a function of the two   *)
(* shapes and the fuzzy value: geometry[pair][k] is what it answers to the *)
(* k-th attempt on the pair when paving ends within the time limit.  The   *)
(* time limit (--time-per-pair, 60 seconds unless set) is measured on the  *)
(* steady clock, so whether paving runs past it is not a function of the   *)
(* pair: any attempt may expire.                                           *)
(***************************************************************************)
\* the answers to the two attempts of the default ladder on one pair
Geometries ==
    { << K_overlap_big, K_overlap_big >>, << K_filler_err, K_touching >>,
      << K_distinct, K_distinct >>, << K_neg_large, K_distinct >> }

\* ProgressTimeout::UserBreak: clock::now() has passed expireat_
Expire(a, late) == IF late THEN [ a EXCEPT !.expired = TRUE ] ELSE a

\* the pairs main submits for the loaded document and clearance
NearPairs ==
    { PairsBelow(N)[k] : k \in { i \in 1 .. Len(PairsBelow(N)) :
                                   Near(PairsBelow(N)[i]) } }

\* the lambda of asyncmap::submit on the geometry of its pair
RunClassifyDet(w) ==
    RunClassifyWith(w,
        { [ k \in 1 .. Len(fuzzy_values) |->
              Expire(geometry[<< workers[w].hi, workers[w].lo >>][k], late[k]) ] :
          late \in [ 1 .. Len(fuzzy_values) -> BOOLEAN ] })

InitDet ==
    /\ solid_shapes \in Docs
    /\ bbox_clearance \in Clearances
    /\ max_common_volume_ratio = RatioPct
    /\ fuzzy_values = DefaultLadder
    /\ num_workers \in 1 .. MaxWorkers
    /\ InitIdle
    /\ geometry \in [ NearPairs -> Geometries ]
    /\ InitNoGlue
    /\ InitNoQueue
    /\ pc = "sched"
    /\ idx = Len(solid_shapes)
    /\ hi = 1
    /\ lo = 0
    /\ bounding_boxes = [ i \in 1 .. Len(solid_shapes) |->
                            AddOBB(solid_shapes[i]) ]
    /\ volumes = [ i \in 1 .. Len(solid_shapes) |->
                     volume_of_shape(solid_shapes[i]) ]
    /\ ran = 0 .. Len(solid_shapes) - 1
    /\ cls_in = << >>
    /\ cls_out = NoRun

NextDet ==
    \/ SchedSkip
    \/ SchedSubmit
    \/ MapCount
    \/ SchedEnd
    \/ DrainMore
    \/ Get
    \/ DrainEnd
    \/ \E w \in 1 .. num_workers : WorkerTake(w)
    \/ \E w \in 1 .. num_workers : RunClassifyDet(w)

SpecDet == InitDet /\ [][NextDet]_vars

\* what the classifier returns for a pair when every paving ends in time
Expected(pair) == shape_classifier(fuzzy_values, geometry[pair])

ExpectedOutputs ==
    { Output(p[1], p[2], Expected(p).result) : p \in NearPairs }

ExpectedRows ==
    UNION { { RowsFor(o, volumes)[i] : i \in 1 .. Len(RowsFor(o, volumes)) } :
            o \in ExpectedOutputs }

ExpectedExit ==
    IF \/ \E o \in ExpectedOutputs : o.result.status \in { "failed", "timeout" }
       \/ \E r \in ExpectedRows : r[3] = "bad_overlap"
    THEN 1 ELSE 0

TakenSet == { taken[i] : i \in 1 .. Len(taken) }

OutSet == { out[i] : i \in 1 .. Len(out) }

\* the pairs submitted, in order, and the first of them that throws
NearSeq == SelectSeq(PairsBelow(N), Near)

Throwing == { k \in 1 .. Len(NearSeq) : Expected(NearSeq[k]).threw }

BeforeThrow == { k \in 1 .. Len(NearSeq) : \A t \in Throwing : k < t }

\* the outcome of the run that classifies and reports the pairs one at a
\* time in the order of submission
SerialOutputs ==
    { Output(NearSeq[k][1], NearSeq[k][2], Expected(NearSeq[k]).result) :
      k \in BeforeThrow }

SerialRows ==
    UNION { { RowsFor(o, volumes)[i] : i \in 1 .. Len(RowsFor(o, volumes)) } :
            o \in SerialOutputs }

SerialExit ==
    IF Throwing # { } THEN AbortStatus
    ELSE IF \/ \E o \in SerialOutputs : o.result.status = "failed"
            \/ \E r \in SerialRows : r[3] = "bad_overlap"
    THEN 1 ELSE 0

SolidShape(k) == << "solid", k >>

NullShape == << "null" >>

Cut(shape, tool) == << "cut", shape, tool >>

Cut21(shape, tool) == << "cut21", shape, tool >>

Common(shape, tool) == << "common", shape, tool >>

Fuse(shape, common) == << "fuse", shape, common >>

(***************************************************************************)
(* int_of_string and document::lookup_solid.  A field is a sequence of     *)
(* characters.  strtol with base 0 skips white space, reads a sign, takes  *)
(* 0x as the mark of base 16 and a leading 0 as the mark of base 8, and    *)
(* reads digits of the base; end is the index of the first character it    *)
(* did not read, or 1 when it read no digit.                               *)
(***************************************************************************)
HexDigits ==
    << "0", "1", "2", "3", "4", "5", "6", "7", "8", "9",
       "a", "b", "c", "d", "e", "f" >>

DigitVal(c) ==
    IF \E d \in 1 .. 16 : HexDigits[d] = c
    THEN (CHOOSE d \in 1 .. 16 : HexDigits[d] = c) - 1
    ELSE 16

IsDigit(s, k, base) == k <= Len(s) /\ DigitVal(s[k]) < base

RECURSIVE SkipSpace(_, _)
SkipSpace(s, k) ==
    IF k <= Len(s) /\ s[k] = " " THEN SkipSpace(s, k + 1) ELSE k

RECURSIVE ScanDigits(_, _, _, _)
ScanDigits(s, k, base, acc) ==
    IF IsDigit(s, k, base)
    THEN ScanDigits(s, k + 1, base, acc * base + DigitVal(s[k]))
    ELSE [ val |-> acc, end |-> k ]

strtol(s) ==
    LET i0 == SkipSpace(s, 1)
        signed == i0 <= Len(s) /\ s[i0] \in { "-", "+" }
        neg == signed /\ s[i0] = "-"
        i1 == IF signed THEN i0 + 1 ELSE i0
        hex == /\ i1 + 1 <= Len(s)
               /\ s[i1] = "0"
               /\ s[i1 + 1] = "x"
               /\ IsDigit(s, i1 + 2, 16)
        base == IF hex THEN 16
                ELSE IF i1 <= Len(s) /\ s[i1] = "0" THEN 8 ELSE 10
        start == IF hex THEN i1 + 2 ELSE i1
        r == ScanDigits(s, start, base, 0)
    IN IF r.end = start
       THEN [ val |-> 0, end |-> 1 ]
       ELSE [ val |-> IF neg THEN 0 - r.val ELSE r.val, end |-> r.end ]

\* if (*s == '\0' || *end != '\0') return false;
int_of_string_prefix(s) ==
    LET r == strtol(s)
    IN IF s = << >> \/ r.end = 1
       THEN [ ok |-> FALSE, i |-> 0 - 1 ]
       ELSE [ ok |-> TRUE, i |-> r.val ]

int_of_string(s) ==
    LET r == strtol(s)
    IN IF s = << >> \/ r.end # Len(s) + 1
       THEN [ ok |-> FALSE, i |-> 0 - 1 ]
       ELSE [ ok |-> TRUE, i |-> r.val ]

lookup_solid(str, size) ==
    LET r == int_of_string(str)
    IN IF ~ r.ok THEN 0 - 1
       ELSE IF r.i < 0 \/ r.i >= size THEN 0 - 1
       ELSE r.i

(***************************************************************************)
(* perform_solid_imprinting.  The kernel's part in one call is an input:   *)
(* which operation reports errors, whether a volume comes out negative     *)
(* (volume_of_shape then throws), whether COMMON holds a vertex, which cut *)
(* is the larger, and whether the cuts are the very shapes passed in.      *)
(***************************************************************************)
KI(fe, ce, nc, cue, ncut, c21e, nc12, hv, larger, fue, same) ==
    [ filler_err |-> fe, common_err |-> ce, neg_common |-> nc,
      cut_err |-> cue, neg_cut |-> ncut, cut21_err |-> c21e,
      neg_cut12 |-> nc12, has_vertices |-> hv, shape_larger |-> larger,
      fuse_err |-> fue, same |-> same ]

I_filler_err == KI(TRUE, FALSE, FALSE, FALSE, FALSE, FALSE, FALSE, FALSE, FALSE, FALSE, FALSE)

I_common_err == KI(FALSE, TRUE, FALSE, FALSE, FALSE, FALSE, FALSE, FALSE, FALSE, FALSE, FALSE)

I_neg_common == KI(FALSE, FALSE, TRUE, FALSE, FALSE, FALSE, FALSE, FALSE, FALSE, FALSE, FALSE)

I_cut_err == KI(FALSE, FALSE, FALSE, TRUE, FALSE, FALSE, FALSE, FALSE, FALSE, FALSE, FALSE)

I_neg_cut == KI(FALSE, FALSE, FALSE, FALSE, TRUE, FALSE, FALSE, FALSE, FALSE, FALSE, FALSE)

I_cut21_err == KI(FALSE, FALSE, FALSE, FALSE, FALSE, TRUE, FALSE, FALSE, FALSE, FALSE, FALSE)

I_neg_cut12 == KI(FALSE, FALSE, FALSE, FALSE, FALSE, FALSE, TRUE, FALSE, FALSE, FALSE, FALSE)

\* COMMON holds no vertex: the solids are apart, or they touch and the cuts
\* carry the imprinted faces
I_apart == KI(FALSE, FALSE, FALSE, FALSE, FALSE, FALSE, FALSE, FALSE, TRUE, FALSE, TRUE)

I_touch == KI(FALSE, FALSE, FALSE, FALSE, FALSE, FALSE, FALSE, FALSE, TRUE, FALSE, FALSE)

\* COMMON holds a vertex
I_fuse_err == KI(FALSE, FALSE, FALSE, FALSE, FALSE, FALSE, FALSE, TRUE, TRUE, TRUE, FALSE)

I_merge_shape == KI(FALSE, FALSE, FALSE, FALSE, FALSE, FALSE, FALSE, TRUE, TRUE, FALSE, FALSE)

I_merge_tool == KI(FALSE, FALSE, FALSE, FALSE, FALSE, FALSE, FALSE, TRUE, FALSE, FALSE, FALSE)

ImprintAnswers ==
    { I_filler_err, I_common_err, I_neg_common, I_cut_err, I_neg_cut,
      I_cut21_err, I_neg_cut12, I_apart, I_touch, I_fuse_err, I_merge_shape,
      I_merge_tool }

\* the answers drawn for the rows of a run of the imprinter
RowAnswers ==
    { I_filler_err, I_fuse_err, I_neg_common, I_apart, I_touch, I_merge_shape,
      I_merge_tool }

ImprintResult(status, shape, tool) ==
    [ threw |-> FALSE, status |-> status, shape |-> shape, tool |-> tool ]

ImprintThrows == [ threw |-> TRUE, status |-> "failed", shape |-> NullShape,
                   tool |-> NullShape ]

perform_solid_imprinting(shape, tool, a) ==
    LET common == Common(shape, tool)
        cut == IF a.same THEN shape ELSE Cut(shape, tool)
        cut21 == IF a.same THEN tool ELSE Cut21(shape, tool)
    IN IF a.filler_err \/ a.common_err
       THEN ImprintResult("failed", NullShape, NullShape)
       ELSE IF a.neg_common THEN ImprintThrows
       ELSE IF a.cut_err THEN ImprintResult("failed", NullShape, NullShape)
       ELSE IF a.neg_cut THEN ImprintThrows
       ELSE IF a.cut21_err THEN ImprintResult("failed", cut, NullShape)
       ELSE IF a.neg_cut12 THEN ImprintThrows
       ELSE IF ~ a.has_vertices THEN ImprintResult("distinct", cut, cut21)
       ELSE IF a.fuse_err THEN ImprintResult("failed", cut, cut21)
       ELSE IF a.shape_larger
       THEN ImprintResult("merge_into_shape", Fuse(cut, common), cut21)
       ELSE ImprintResult("merge_into_tool", cut, Fuse(cut21, common))

(***************************************************************************)
(* The imprinter: imprint(doc) and main of imprint_solids.                 *)
(***************************************************************************)
\* the variables of the overlap checker, which the other tools leave alone
checkerVars ==
    << bbox_clearance, fuzzy_values, num_workers, max_common_volume_ratio,
       queue, workers,
       pf_inflight, map_inflight, results, idx, hi, lo, bounding_boxes,
       volumes, counters, out, empty_ret, waiter, cls_in, cls_out, csv_row,
       csv_fields, ran, tested,
       submitted, completed, taken, threw, empty_snap, running, destroyed >>

\* doc.solid_shapes[first] = res.shape; doc.solid_shapes[second] = res.tool;
\* which the case of imprint_status::failed skips by continue
imprint_store_failed_too(doc, first, second, res) ==
    [ [ doc EXCEPT ![first + 1] = res.shape ] EXCEPT ![second + 1] = res.tool ]

imprint_store_not_distinct(doc, first, second, res) ==
    IF res.status \in { "failed", "distinct" }
    THEN doc
    ELSE [ [ doc EXCEPT ![first + 1] = res.shape ]
               EXCEPT ![second + 1] = res.tool ]

imprint_store_shape_only(doc, first, second, res) ==
    IF res.status = "failed"
    THEN doc
    ELSE [ doc EXCEPT ![first + 1] = res.shape ]

imprint_store(doc, first, second, res) ==
    IF res.status = "failed"
    THEN doc
    ELSE [ [ doc EXCEPT ![first + 1] = res.shape ]
               EXCEPT ![second + 1] = res.tool ]

\* if (num_failed > 0) return 1;  return 0;
imprint_return_zero(n) == 0

imprint_return(n) == IF n > 0 THEN 1 ELSE 0

\* the first or the second field of a row is not the index of a solid
row_is_bad(fields, size) ==
    IF Len(fields) < 2
    THEN TRUE
    ELSE lookup_solid(fields[1], size) < 0 \/ lookup_solid(fields[2], size) < 0

\* parse_next_row(std::cin, fields) after n rows: the next line of the input
parse_next_row_from_end(input, n) == input[Len(input) - n]

parse_next_row(input, n) == input[n + 1]

Applied(fields, first, second, before, res, after) ==
    [ row |-> fields, first |-> first, second |-> second, before |-> before,
      status |-> res.status, shape |-> res.shape, tool |-> res.tool,
      after |-> after ]

\* one turn of the while loop of imprint, lines 71-117
ImprintRow ==
    /\ pc = "imprint"
    /\ nread < Len(rows)
    /\ nread' = nread + 1
    /\ LET fields == parse_next_row(rows, nread)
           size == Len(solid_shapes)
       IN IF row_is_bad(fields, size)
          THEN /\ pc' = "bad_row"
               /\ exit_status' = 1
               /\ UNCHANGED << solid_shapes, failed_rows, applied >>
          ELSE \E a \in RowAnswers :
                 LET first == lookup_solid(fields[1], size)
                     second == lookup_solid(fields[2], size)
                     res == perform_solid_imprinting(solid_shapes[first + 1],
                                solid_shapes[second + 1], a)
                     after == imprint_store(solid_shapes, first, second, res)
                 IN IF res.threw
                    THEN /\ pc' = "aborted"
                         /\ exit_status' = AbortStatus
                         /\ UNCHANGED << solid_shapes, failed_rows, applied >>
                    ELSE /\ solid_shapes' = after
                         /\ failed_rows' = IF res.status = "failed"
                                           THEN failed_rows + 1
                                           ELSE failed_rows
                         /\ applied' = Append(applied,
                                Applied(fields, first, second, solid_shapes,
                                        res, after))
                         /\ UNCHANGED << pc, exit_status >>
    /\ UNCHANGED << checkerVars, geometry, glueVars, queueVars, rows, out_shapes, written >>

\* parse_next_row returns input_status::error, lines 119-122
ImprintReadError ==
    /\ pc = "imprint"
    /\ pc' = "read_error"
    /\ exit_status' = 1
    /\ UNCHANGED << checkerVars, solid_shapes, geometry, glueVars, queueVars, rows, nread,
                    failed_rows, out_shapes, written, applied >>

\* end of file: lines 124-129 of imprint and 160-163 of main
ImprintEnd ==
    /\ pc = "imprint"
    /\ nread = Len(rows)
    /\ IF imprint_return(failed_rows) # 0
       THEN /\ pc' = "failed"
            /\ exit_status' = imprint_return(failed_rows)
       ELSE /\ pc' = "write"
            /\ UNCHANGED exit_status
    /\ UNCHANGED << checkerVars, solid_shapes, geometry, glueVars, queueVars, rows, nread,
                    failed_rows, out_shapes, written, applied >>

\* doc.write_brep_file(path_out); return 0;  the write exits with 1 if the
\* kernel cannot write the file
WriteFile ==
    /\ pc = "write"
    /\ \E ok \in BOOLEAN :
         IF ok
         THEN /\ written' = [ done |-> TRUE, doc |-> solid_shapes ]
              /\ exit_status' = 0
              /\ pc' = "done"
         ELSE /\ pc' = "write_error"
              /\ exit_status' = 1
              /\ UNCHANGED written
    /\ UNCHANGED << checkerVars, solid_shapes, geometry, glueVars, queueVars, rows, nread,
                    failed_rows, out_shapes, applied >>

\* the first two fields of the rows: two solids, one solid twice, an index
\* that only a document of three holds, a negative number, a number followed
\* by a letter, and an empty field
FieldPairs ==
    { << << "0" >>, << "1" >> >>, << << "1" >>, << "0" >> >>,
      << << "0" >>, << "2" >> >>, << << "1" >>, << "2" >> >>,
      << << "1" >>, << "1" >> >>, << << "-", "1" >>, << "0" >> >>,
      << << "0" >>, << "1", "z" >> >>, << << >>, << "0" >> >> }

RowStatuses == { "touch", "overlap" }

\* an empty line is a row of one empty field
EmptyLine == << << >> >>

InputRows ==
    { << fp[1], fp[2], st >> : fp \in FieldPairs, st \in RowStatuses }
        \cup { EmptyLine }

Inputs == UNION { [ 1 .. n -> InputRows ] : n \in 0 .. MaxRows }

\* the document as loaded: n solids
LoadedDoc(n) == [ k \in 1 .. n |-> SolidShape(k - 1) ]

\* the checker stands idle while another tool runs
InitNoChecker ==
    /\ bbox_clearance = 0
    /\ max_common_volume_ratio = RatioPct
    /\ fuzzy_values = << >>
    /\ num_workers = 1
    /\ queue = << >>
    /\ workers = [ w \in 1 .. num_workers |-> Idle ]
    /\ pf_inflight = 0
    /\ map_inflight = 0
    /\ results = << >>
    /\ counters = ZeroCounters
    /\ out = << >>
    /\ exit_status = 0 - 1
    /\ empty_ret = "none"
    /\ waiter = NoWaiter
    /\ empty_snap = 0
    /\ tested = << >>
    /\ submitted = << >>
    /\ completed = << >>
    /\ taken = << >>
    /\ threw = { }
    /\ running = TRUE
    /\ destroyed = { }
    /\ idx = 0
    /\ hi = 0
    /\ lo = 0
    /\ bounding_boxes = << >>
    /\ volumes = << >>
    /\ ran = { }
    /\ cls_in = << >>
    /\ cls_out = NoRun

\* main of the imprinter after doc.load_brep_file, line 158
InitImp ==
    /\ InitNoChecker
    /\ InitNoCsv
    /\ solid_shapes \in { LoadedDoc(n) : n \in 2 .. MaxSolids }
    /\ rows \in Inputs
    /\ geometry = << >>
    /\ InitNoGlue
    /\ InitNoQueue
    /\ nread = 0
    /\ failed_rows = 0
    /\ out_shapes = << >>
    /\ written = NotWritten
    /\ applied = << >>
    /\ pc = "imprint"

NextImp ==
    \/ ImprintRow
    \/ ImprintReadError
    \/ ImprintEnd
    \/ WriteFile

SpecImp == InitImp /\ [][NextImp]_vars

(***************************************************************************)
(* Properties of the imprinter.                                            *)
(***************************************************************************)
\* the document before the k-th row handled
DocBefore(k) == IF k = 1 THEN LoadedDoc(N) ELSE applied[k - 1].after

\* slots first and second hold the shapes of the result, the rest is as before
Stored(e) ==
    /\ e.after[e.second + 1] = e.tool
    /\ e.first # e.second => e.after[e.first + 1] = e.shape
    /\ \A i \in 1 .. N :
         (i # e.first + 1 /\ i # e.second + 1) => e.after[i] = e.before[i]

\* the shape was made by the kernel from the two slots as they were before
MadeFrom(e) ==
    LET a == e.before[e.first + 1]
        b == e.before[e.second + 1]
    IN /\ \/ e.shape = a
          \/ e.shape = Cut(a, b)
          \/ e.shape = Fuse(Cut(a, b), Common(a, b))
       /\ \/ e.tool = b
          \/ e.tool = Cut21(a, b)
          \/ e.tool = Fuse(Cut21(a, b), Common(a, b))

FailedEntries == { k \in 1 .. Len(applied) : applied[k].status = "failed" }

ImpEnded ==
    pc \in { "bad_row", "read_error", "aborted", "failed", "write_error",
             "done" }

\* C12: the rows handled are the first rows of the input, in order, one at a
\* time; each is imprinted on the document as the rows before it left it,
\* from the shapes its two slots then held; and the document is what the last
\* row handled left
C12_RowsInOrder ==
    /\ Len(applied) <= nread
    /\ nread <= Len(rows)
    /\ nread <= Len(applied) + 1
    /\ \A k \in 1 .. Len(applied) :
         /\ applied[k].row = rows[k]
         /\ applied[k].before = DocBefore(k)
         /\ applied[k].status # "failed" =>
               Stored(applied[k]) /\ MadeFrom(applied[k])
    /\ solid_shapes = DocBefore(Len(applied) + 1)
    /\ Len(solid_shapes) = N

\* two different rows rewrote slot 0 one after the other: the second one
\* worked on the shape the first one had stored
C12_Witness ==
    /\ Len(applied) = 2
    /\ rows[1] # rows[2]
    /\ applied[1].first = 0
    /\ applied[1].status = "merge_into_shape"
    /\ applied[2].first = 0
    /\ applied[2].second = 2
    /\ applied[2].status = "merge_into_shape"
    /\ solid_shapes[1] =
          Fuse(Cut(applied[1].shape, SolidShape(2)),
               Common(applied[1].shape, SolidShape(2)))

\* C13: a row whose imprint fails leaves the document as it was, the failure
\* is counted, and the loop goes on: it ends before the last row only on a
\* bad row, a read error or a throw
C13_FailedKeepsSlots ==
    /\ \A k \in FailedEntries : applied[k].after = applied[k].before
    /\ failed_rows = Cardinality(FailedEntries)
    /\ pc \in { "failed", "write", "write_error", "done" } =>
          nread = Len(rows) /\ Len(applied) = Len(rows)

\* the first row failed on slots that the second row then imprinted
C13_Witness ==
    /\ pc = "failed"
    /\ Len(applied) = 2
    /\ applied[1].status = "failed"
    /\ applied[2].status = "merge_into_tool"
    /\ applied[2].first = applied[1].first
    /\ applied[2].before[applied[1].first + 1] = SolidShape(applied[1].first)

\* C14: when a row has failed the imprinter writes no file and ends with a
\* status other than zero, after the last row if no row stopped it before;
\* a file is written only when no row failed, and then it is the document
C14_NoOutputAfterFailure ==
    /\ written.done =>
          /\ failed_rows = 0
          /\ pc = "done"
          /\ exit_status = 0
          /\ written.doc = solid_shapes
          /\ nread = Len(rows)
    /\ failed_rows > 0 =>
          /\ ~ written.done
          /\ pc \notin { "write", "done", "write_error" }
          /\ ImpEnded => exit_status # 0
    /\ pc = "failed" =>
          /\ failed_rows > 0
          /\ exit_status = 1
          /\ nread = Len(rows)
    /\ pc = "done" => written.done

\* the last of two rows failed after the first one was imprinted
C14_Witness ==
    /\ pc = "failed"
    /\ failed_rows = 1
    /\ Len(applied) = 2
    /\ applied[1].status = "merge_into_shape"
    /\ applied[2].status = "failed"
    /\ solid_shapes # LoadedDoc(N)

DistinctEntries == { k \in 1 .. Len(applied) : applied[k].status = "distinct" }

\* C15 as claimed: a row of status Distinct leaves its two slots as they were
C15_DistinctUnchanged ==
    \A k \in DistinctEntries :
        /\ applied[k].after[applied[k].first + 1] =
              applied[k].before[applied[k].first + 1]
        /\ applied[k].after[applied[k].second + 1] =
              applied[k].before[applied[k].second + 1]

\* C15 amended: a row of status Distinct stores in its two slots the shapes
\* CUT and CUT21 returned, with no FUSE; the other slots are as before
C15_DistinctStoresCuts ==
    \A k \in DistinctEntries :
        LET e == applied[k]
            a == e.before[e.first + 1]
            b == e.before[e.second + 1]
        IN /\ Stored(e)
           /\ e.shape = a \/ e.shape = Cut(a, b)
           /\ e.tool = b \/ e.tool = Cut21(a, b)

\* a row of status Distinct replaced solids 0 and 1 by their cuts
C15_Witness ==
    /\ Len(applied) >= 1
    /\ applied[1].status = "distinct"
    /\ applied[1].first = 0
    /\ applied[1].second = 1
    /\ solid_shapes[1] = Cut(SolidShape(0), SolidShape(1))
    /\ solid_shapes[2] = Cut21(SolidShape(0), SolidShape(1))

\* C16 as claimed: no row of status touch reaches the boolean operations
C16_TouchIgnored ==
    \A k \in 1 .. Len(applied) : applied[k].row[3] # "touch"

\* C16 amended: the rows handled are the rows read, touch rows among them;
\* the status field has no part in it, and a touch row whose imprint does
\* not fail has its two slots overwritten like any other row
C16_TouchImprinted ==
    /\ pc = "imprint" => Len(applied) = nread
    /\ \A k \in 1 .. Len(applied) :
         /\ applied[k].row = rows[k]
         /\ applied[k].status # "failed" => Stored(applied[k])
         /\ applied[k].status = "failed" =>
               applied[k].after = applied[k].before

\* a touch row was imprinted and changed both of its slots
C16_Witness ==
    /\ Len(applied) >= 1
    /\ applied[1].row[3] = "touch"
    /\ applied[1].status = "distinct"
    /\ applied[1].first # applied[1].second
    /\ solid_shapes[applied[1].first + 1] # SolidShape(applied[1].first)
    /\ solid_shapes[applied[1].second + 1] # SolidShape(applied[1].second)

\* the index a field denotes: the numerals 0, 1, 2 denote themselves, the
\* other fields of the input denote no index
IndexOf(f) ==
    IF f = << "0" >> THEN 0
    ELSE IF f = << "1" >> THEN 1
    ELSE IF f = << "2" >> THEN 2
    ELSE 0 - 1

IsIndex(f) == IndexOf(f) >= 0 /\ IndexOf(f) < N

BadRowAt(k) ==
    /\ Len(rows[k]) >= 2
    /\ ~ IsIndex(rows[k][1]) \/ ~ IsIndex(rows[k][2])

\* C17: a row whose first or second field is not an index below N ends the
\* imprinter when it is read, with status 1 and no file written, whatever
\* the rows before it did; and the rows that are imprinted are imprinted on
\* the slots their fields denote
C17_BadIndexIsFatal ==
    /\ \A k \in 1 .. nread :
         BadRowAt(k) =>
             /\ k = nread
             /\ pc = "bad_row"
             /\ exit_status = 1
             /\ ~ written.done
             /\ Len(applied) = k - 1
    /\ (ImpEnded /\ \E k \in 1 .. Len(rows) : BadRowAt(k)) =>
          exit_status # 0 /\ ~ written.done
    /\ \A k \in 1 .. Len(applied) :
         /\ applied[k].first = IndexOf(applied[k].row[1])
         /\ applied[k].second = IndexOf(applied[k].row[2])

\* the first row was imprinted, the second names solid 2 of a document of two
C17_Witness ==
    /\ pc = "bad_row"
    /\ N = 2
    /\ nread = 2
    /\ Len(applied) = 1
    /\ applied[1].status = "merge_into_shape"
    /\ rows[2][1] = << "1" >>
    /\ rows[2][2] = << "2" >>
    /\ solid_shapes # LoadedDoc(N)

(***************************************************************************)
(* The merger: main of merge_solids and salome_glue_shape.  A top-level    *)
(* child of the document is a solid or a compound of solids; the image of  *)
(* a shape is the copy the gluer builds of it around the glued sub-shapes. *)
(***************************************************************************)
Compound(parts) == << "compound", parts >>

Image(shape) == << "image", shape >>

IsCompound(shape) == shape[1] = "compound"

\* TopExp::MapShapes(myArgument, TopAbs_VERTEX, verticies) finds a vertex:
\* a solid has vertices, a compound has those of its parts
HasVertex(shape) == IsCompound(shape) => Len(shape[2]) > 0

AnyVertex(children) == \E i \in 1 .. Len(children) : HasVertex(children[i])

\* what detection and filling find in a shape with these children: an
\* exception, no cluster of coincident sub-shapes, or clusters, with the set
\* of top-level children that are bound to an image
GlueAnswers(children) ==
    IF ~ AnyVertex(children)
    THEN { [ kind |-> "none", bound |-> { } ] }
    ELSE { [ kind |-> "throws", bound |-> { } ],
           [ kind |-> "none", bound |-> { } ] }
         \cup { [ kind |-> "found", bound |-> b ] :
                  b \in SUBSET { i \in 1 .. Len(children) :
                                   HasVertex(children[i]) } }

\* TopExp_Explorer{shape, TopAbs_SOLID}: the solids found in one child
SolidsIn(child, bound) ==
    IF IsCompound(child)
    THEN [ k \in 1 .. Len(child[2]) |->
             IF bound THEN Image(child[2][k]) ELSE child[2][k] ]
    ELSE << IF bound THEN Image(child) ELSE child >>

RECURSIVE Flatten(_)
Flatten(seqs) ==
    IF seqs = << >> THEN << >> ELSE Head(seqs) \o Flatten(Tail(seqs))

\* geomgluer2::BuildResult: the children, each replaced by its image if it
\* has one, and then every solid found in them
BuildResult(children, a) ==
    Flatten([ i \in 1 .. Len(children) |->
                SolidsIn(children[i], i \in a.bound) ])

\* geomgluer2::Perform without the early return
Perform_build_always(children, a) == BuildResult(children, a)

\* geomgluer2::Perform after detection: with no image to work on the
\* argument is returned as it is
Perform(children, a) ==
    IF a.kind # "found" THEN children ELSE BuildResult(children, a)

\* salome_glue_shape: an exception of the detector or the gluer, the one of
\* DetectVertices for a shape without vertices among them, ends the process
salome_glue_shape(children, a) ==
    IF ~ AnyVertex(children) \/ a.kind = "throws"
    THEN [ ok |-> FALSE, shape |-> << >> ]
    ELSE [ ok |-> TRUE, shape |-> Perform(children, a) ]

\* the outcome of the comparison of the volumes, lines 75-92 of main: a
\* negative volume makes volume_of_shape throw, and only a shape that the
\* gluer replaced can have another volume than before
VolumeAnswers(inp, outp) ==
    { "same", "negative" }
        \cup ( IF \E i \in 1 .. Len(inp) : inp[i] # outp[i]
               THEN { "changed" } ELSE { } )

\* const auto result = salome_glue_shape(merged, 0.001); and the copy of its
\* children to out.solid_shapes
MergeGlue ==
    /\ pc = "merge"
    /\ \E a \in GlueAnswers(solid_shapes) :
         LET r == salome_glue_shape(solid_shapes, a)
         IN /\ applied' = << a >>
            /\ IF r.ok
               THEN /\ out_shapes' = r.shape
                    /\ pc' = "check"
                    /\ UNCHANGED exit_status
               ELSE /\ pc' = "glue_error"
                    /\ exit_status' = 1
                    /\ UNCHANGED out_shapes
    /\ UNCHANGED << checkerVars, solid_shapes, geometry, glueVars, queueVars, rows, nread,
                    failed_rows, written >>

\* lines 67-92 of main: the number of shapes, then their volumes
MergeCheck ==
    /\ pc = "check"
    /\ IF Len(solid_shapes) # Len(out_shapes)
       THEN /\ pc' = "count_changed"
            /\ exit_status' = 1
       ELSE \E v \in VolumeAnswers(solid_shapes, out_shapes) :
              CASE v = "negative" ->
                     /\ pc' = "aborted"
                     /\ exit_status' = AbortStatus
                [] v = "changed" ->
                     /\ pc' = "volume_changed"
                     /\ exit_status' = 1
                [] OTHER ->
                     /\ pc' = "write_out"
                     /\ UNCHANGED exit_status
    /\ UNCHANGED << checkerVars, solid_shapes, geometry, glueVars, queueVars, rows, nread,
                    failed_rows, out_shapes, written, applied >>

\* out.write_brep_file(path_out); return 0;
MergeWrite ==
    /\ pc = "write_out"
    /\ \E ok \in BOOLEAN :
         IF ok
         THEN /\ written' = [ done |-> TRUE, doc |-> out_shapes ]
              /\ exit_status' = 0
              /\ pc' = "done"
         ELSE /\ pc' = "write_error"
              /\ exit_status' = 1
              /\ UNCHANGED written
    /\ UNCHANGED << checkerVars, solid_shapes, geometry, glueVars, queueVars, rows, nread,
                    failed_rows, out_shapes, applied >>

\* the top-level children a BREP file can hold: a solid, and compounds of
\* no, one and two solids
Children ==
    { SolidShape(0), Compound(<< >>), Compound(<< SolidShape(1) >>),
      Compound(<< SolidShape(1), SolidShape(2) >>) }

\* the documents the loader accepts, the empty one among them
MergeDocs == UNION { [ 1 .. n -> Children ] : n \in 0 .. MaxSolids }

\* main of the merger after inp.load_brep_file, line 46
InitMerge ==
    /\ InitNoChecker
    /\ InitNoCsv
    /\ InitNoTool
    /\ solid_shapes \in MergeDocs
    /\ geometry = << >>
    /\ InitNoGlue
    /\ InitNoQueue
    /\ pc = "merge"

NextMerge ==
    \/ MergeGlue
    \/ MergeCheck
    \/ MergeWrite

SpecMerge == InitMerge /\ [][NextMerge]_vars

(***************************************************************************)
(* Properties of the merger.                                               *)
(***************************************************************************)
Glued == applied # << >>

\* C18: the shape the merge returns has as many children as the document
\* has slots
C18_MergeKeepsSlots ==
    pc \in { "check", "count_changed" } =>
        Len(out_shapes) = Len(solid_shapes)

\* C19 as claimed: when detection finds no cluster the merge ends without
\* an error and hands back the input
C19_NoClusterNoError ==
    (Glued /\ applied[1].kind = "none") =>
        /\ pc # "glue_error"
        /\ out_shapes = solid_shapes

\* C19 amended: when the input has a vertex and detection finds no cluster,
\* the gluer reports no error and returns the children of its argument as
\* they are, so the checks of count and volume change pass and the file
\* written, if one is written, holds the input
C19_NoClusterReturnsInput ==
    (Glued /\ applied[1].kind = "none") =>
        IF AnyVertex(solid_shapes)
        THEN /\ pc \notin { "glue_error", "count_changed", "volume_changed" }
             /\ out_shapes = solid_shapes
             /\ written.done => written.doc = solid_shapes /\ exit_status = 0
        ELSE /\ pc = "glue_error"
             /\ exit_status = 1
             /\ ~ written.done

\* no cluster in a document that holds a compound of two solids: the file
\* written has the compound in its slot
C19_Witness ==
    /\ pc = "done"
    /\ Glued
    /\ applied[1].kind = "none"
    /\ Len(solid_shapes) = 2
    /\ solid_shapes[2] = Compound(<< SolidShape(1), SolidShape(2) >>)
    /\ written.doc = solid_shapes

(***************************************************************************)
(* Destruction.  A caller that uses the barrier group as main does, then   *)
(* submits to an async map and leaves its block without taking a result,   *)
(* hands one task to the pool itself, and destroys the pool.  The          *)
(* destructor of the pool is not in the header: it stops the workers and   *)
(* joins them, and the workers run what is queued before they end.         *)
(***************************************************************************)
\* while (num_inflight > 0) cond_done.wait(mlock);  the loop is left when:
asyncmap_wait_returns_at_once(n) == TRUE

asyncmap_wait_returns(n) == n = 0

\* the task handed to the pool itself is numbered after the thunks
RawTask == Task("raw", N, 0)

\* the end of the scheduling loop: the block of the map is left at once
SchedLeave ==
    /\ pc = "sched"
    /\ hi >= N
    /\ pc' = "map_dtor"
    /\ UNCHANGED << cfgVars, clsVars, waiter, toolVars, queue, workers, pf_inflight,
                    map_inflight, results, idx, hi, lo, bounding_boxes,
                    volumes, counters, out, exit_status, empty_ret, ran,
                    tested, submitted, completed, taken, threw, empty_snap >>

\* ~asyncmap: wait() returns and the map is gone
MapDtor ==
    /\ pc = "map_dtor"
    /\ asyncmap_wait_returns(map_inflight)
    /\ destroyed' = destroyed \cup { "asyncmap" }
    /\ pc' = "raw_submit"
    /\ UNCHANGED << cfgVars, clsVars, waiter, geometry, glueVars, queueVars, running, rows, nread,
                    failed_rows, out_shapes, written, applied, queue, workers,
                    pf_inflight, map_inflight, results, idx, hi, lo,
                    bounding_boxes, volumes, counters, out, exit_status,
                    empty_ret, ran, tested, submitted, completed, taken,
                    threw, empty_snap >>

\* pool.submit(task) by the caller, with no helper
PoolSubmitRaw ==
    /\ pc = "raw_submit"
    /\ queue' = pool_submit(queue, RawTask)
    /\ pc' = "pool_dtor"
    /\ UNCHANGED << cfgVars, clsVars, waiter, toolVars, workers, pf_inflight,
                    map_inflight, results, idx, hi, lo, bounding_boxes,
                    volumes, counters, out, exit_status, empty_ret, ran,
                    tested, submitted, completed, taken, threw, empty_snap >>

\* a worker runs the task of the caller
RunRaw(w) ==
    /\ Running
    /\ workers[w].kind = "raw"
    /\ ran' = ran \cup { workers[w].hi }
    /\ workers' = [ workers EXCEPT ![w] = Idle ]
    /\ UNCHANGED << cfgVars, clsVars, waiter, toolVars, queue, pf_inflight,
                    map_inflight, results, pc, idx, hi, lo, bounding_boxes,
                    volumes, counters, out, exit_status, empty_ret, tested,
                    submitted, completed, taken, threw, empty_snap >>

\* thread_pool::~thread_pool: the workers are told to stop
PoolDtor ==
    /\ pc = "pool_dtor"
    /\ running' = FALSE
    /\ pc' = "pool_join"
    /\ UNCHANGED << cfgVars, clsVars, waiter, geometry, glueVars, queueVars, destroyed, rows, nread,
                    failed_rows, out_shapes, written, applied, queue, workers,
                    pf_inflight, map_inflight, results, idx, hi, lo,
                    bounding_boxes, volumes, counters, out, exit_status,
                    empty_ret, ran, tested, submitted, completed, taken,
                    threw, empty_snap >>

\* thread_pool::~thread_pool: the workers are joined; a worker ends when it
\* is told to stop and finds the queue empty
PoolJoin ==
    /\ pc = "pool_join"
    /\ ~ running
    /\ queue = << >>
    /\ \A w \in 1 .. num_workers : workers[w] = Idle
    /\ destroyed' = destroyed \cup { "thread_pool" }
    /\ exit_status' = 0
    /\ pc' = "done"
    /\ UNCHANGED << cfgVars, clsVars, waiter, geometry, glueVars, queueVars, running, rows, nread,
                    failed_rows, out_shapes, written, applied, queue, workers,
                    pf_inflight, map_inflight, results, idx, hi, lo,
                    bounding_boxes, volumes, counters, out, empty_ret, ran,
                    tested, submitted, completed, taken, threw, empty_snap >>

\* what the pairs are has no part in destruction: every pair is distinct
DtorAnswers == { K_distinct }

RunClassifyDtor(w) == RunClassifyOn(w, DtorAnswers)

NextDtor ==
    \/ PfSubmit
    \/ PfCount
    \/ PfLoopEnd
    \/ PfWait
    \/ SchedSkip
    \/ SchedSubmit
    \/ MapCount
    \/ SchedLeave
    \/ MapDtor
    \/ PoolSubmitRaw
    \/ PoolDtor
    \/ PoolJoin
    \/ \E w \in 1 .. num_workers : WorkerTake(w)
    \/ \E w \in 1 .. num_workers : RunThunk(w)
    \/ \E w \in 1 .. num_workers : RunClassifyDtor(w)
    \/ \E w \in 1 .. num_workers : RunRaw(w)

SpecDtor == Init /\ [][NextDtor]_vars

\* a task of this kind is queued or in the hands of a worker
Pending(kind) ==
    \/ \E i \in 1 .. Len(queue) : queue[i].kind = kind
    \/ \E w \in 1 .. num_workers : workers[w].kind = kind

\* C20: once the barrier group is destroyed every thunk submitted to it has
\* run and none is queued or running; once the async map is destroyed every
\* pair submitted to it has completed, each once, and no classification is
\* queued or running; once the pool is destroyed its queue is empty, its
\* workers are idle and the task handed to it has run; and the caller gets
\* past a destructor only when the object is destroyed
C20_DestructionJoins ==
    /\ "parfor" \in destroyed =>
          /\ idx = N
          /\ \A i \in 0 .. N - 1 : i \in ran
          /\ pf_inflight = 0
          /\ ~ Pending("thunk")
    /\ "asyncmap" \in destroyed =>
          /\ Len(completed) = Len(submitted)
          /\ \A k \in 1 .. Len(submitted) :
               Cardinality({ i \in 1 .. Len(completed) :
                               PairOf(completed[i]) = submitted[k] }) = 1
          /\ map_inflight = 0
          /\ ~ Pending("classify")
    /\ "thread_pool" \in destroyed =>
          /\ queue = << >>
          /\ \A w \in 1 .. num_workers : workers[w] = Idle
          /\ N \in ran
    /\ pc \in { "sched", "map_count", "map_dtor" } => "parfor" \in destroyed
    /\ pc \in { "raw_submit", "pool_dtor", "pool_join" } =>
          "asyncmap" \in destroyed
    /\ pc = "done" => "thread_pool" \in destroyed

\* the three objects are destroyed; the map had two pairs, whose results
\* nobody took, and the barrier group two thunks
C20_Witness ==
    /\ destroyed = { "parfor", "asyncmap", "thread_pool" }
    /\ N >= 2
    /\ Len(submitted) >= 2
    /\ Len(results) = Len(submitted)
    /\ taken = << >>

(***************************************************************************)
(* Properties of the worker tasks of the overlap checker.                  *)
(***************************************************************************)
\* the entries of the two arrays that a step changes
Written ==
    { i \in 1 .. N : \/ bounding_boxes'[i] # bounding_boxes[i]
                     \/ volumes'[i] # volumes[i] }

\* a worker ends the thunk of solid i in this step
ThunkEnds(i) ==
    \E w \in 1 .. num_workers :
        /\ workers[w] = Task("thunk", i, 0)
        /\ workers'[w] = Idle

\* a worker ends the classification of the pair of output o in this step
ClassifyEnds(o) ==
    \E w \in 1 .. num_workers :
        /\ workers[w] = Task("classify", o.hi, o.lo)
        /\ workers'[w] = Idle

\* C21: no step changes the document or the ladder of tolerances; an entry
\* of the arrays of boxes and volumes changes only in the step that ends the
\* thunk of that very solid, which changes no result; and a result appears
\* only in the step that ends a classification, it is the result of that
\* pair, it is appended, and that step changes neither array
C21_WorkersFrame ==
    [][ /\ solid_shapes' = solid_shapes
        /\ fuzzy_values' = fuzzy_values
        /\ Len(bounding_boxes') = N
        /\ Len(volumes') = N
        /\ \A i \in Written : ThunkEnds(i - 1) /\ completed' = completed
        /\ Cardinality(Written) <= 1
        /\ completed' # completed =>
              /\ Written = { }
              /\ Len(completed') = Len(completed) + 1
              /\ completed' = Append(completed, completed'[Len(completed')])
              /\ ClassifyEnds(completed'[Len(completed')])
      ]_vars

\* two thunks have filled their entries and two pairs were classified, of a
\* document of two kinds of solid
C21_Witness ==
    /\ N = 3
    /\ solid_shapes[1] # solid_shapes[2]
    /\ ran = 0 .. N - 1
    /\ \A i \in 1 .. N : bounding_boxes[i] = AddOBB(solid_shapes[i])
    /\ \A i \in 1 .. N : volumes[i] = volume_of_shape(solid_shapes[i])
    /\ Len(completed) >= 2

(***************************************************************************)
(* main of the overlap checker from the end of option parsing, line 211,   *)
(* to the first submissions: the checks of the configuration, the loading  *)
(* of the document and the construction of the pool.                       *)
(***************************************************************************)
\* if (tolerance < 0)
tolerance_is_negative(t) == t < 0

\* max_common_volume_ratio >= 0 && max_common_volume_ratio <= 1
ratio_is_valid(r) == r >= 0 /\ r <= 100

\* lines 212-231: return 1 on a negative tolerance or a ratio out of range
ValidateConfig ==
    /\ pc = "config"
    /\ IF \/ \E k \in 1 .. Len(fuzzy_values) :
                tolerance_is_negative(fuzzy_values[k])
          \/ ~ ratio_is_valid(max_common_volume_ratio)
       THEN /\ pc' = "config_error"
            /\ exit_status' = 1
       ELSE /\ pc' = "load"
            /\ UNCHANGED exit_status
    /\ UNCHANGED << cfgVars, clsVars, waiter, toolVars, queue, workers, pf_inflight,
                    map_inflight, results, idx, hi, lo, bounding_boxes,
                    volumes, counters, out, empty_ret, ran, tested, submitted,
                    completed, taken, threw, empty_snap >>

\* lines 238-247: doc.load_brep_file, which exits with 1 on a file it cannot
\* read, thread_pool pool(num_parallel_jobs), and the two arrays
LoadDocument ==
    /\ pc = "load"
    /\ \/ /\ pc' = "load_error"
          /\ exit_status' = 1
          /\ UNCHANGED << solid_shapes, workers, bounding_boxes, volumes >>
       \/ \E d \in Docs :
            /\ solid_shapes' = d
            /\ workers' = [ w \in 1 .. num_workers |-> Idle ]
            /\ bounding_boxes' = [ i \in 1 .. Len(d) |-> VoidBox ]
            /\ volumes' = [ i \in 1 .. Len(d) |-> 0 ]
            /\ pc' = "pf_submit"
            /\ UNCHANGED exit_status
    /\ UNCHANGED << bbox_clearance, fuzzy_values, num_workers,
                    max_common_volume_ratio, clsVars, waiter, toolVars, queue,
                    pf_inflight, map_inflight, results, idx, hi, lo, counters,
                    out, empty_ret, ran, tested, submitted, completed, taken,
                    threw, empty_snap >>

\* the values of --imprint-tolerance and --max-common-volume-ratio tried
Tolerances == { 0 - 1, 0, DefaultFuzzy }

ToleranceLists == UNION { [ 1 .. n -> Tolerances ] : n \in 1 .. MaxLadder }

Ratios == { 0 - 1, 0, RatioPct, 100, 101 }

InitCfg ==
    /\ solid_shapes = << >>
    /\ bbox_clearance = 0
    /\ fuzzy_values \in ToleranceLists
    /\ num_workers \in 1 .. MaxWorkers
    /\ max_common_volume_ratio \in Ratios
    /\ InitNoPool
    /\ workers = << >>
    /\ geometry = << >>
    /\ InitNoGlue
    /\ InitNoQueue
    /\ pc = "config"
    /\ idx = 0
    /\ hi = 0
    /\ lo = 0
    /\ bounding_boxes = << >>
    /\ volumes = << >>
    /\ ran = { }
    /\ cls_in = << >>
    /\ cls_out = NoRun

NextCfg ==
    \/ ValidateConfig
    \/ LoadDocument
    \/ PfSubmit
    \/ PfCount

SpecCfg == InitCfg /\ [][NextCfg]_vars

\* C22: a configuration with a negative tolerance or with a ratio that is
\* not inside the open interval (0, 1) gets no further than the checks: no
\* document is loaded, no pool is created, nothing is submitted, and the
\* program ends with status 1
C22_InvalidConfigRejected ==
    ( \/ \E k \in 1 .. Len(fuzzy_values) : fuzzy_values[k] < 0
      \/ ~ ( max_common_volume_ratio > 0 /\ max_common_volume_ratio < 100 ) )
    => /\ pc \in { "config", "config_error" }
       /\ solid_shapes = << >>
       /\ workers = << >>
       /\ queue = << >>
       /\ pc = "config_error" => exit_status = 1

Comma == ","

Quote == "\""

\* fields.push_back(""); i++;
new_field(fields) == Append(fields, << >>)

\* fields[i].push_back(c);
push_char(fields, c) ==
    [ fields EXCEPT ![Len(fields)] = Append(@, c) ]

\* the scanner without its quoted states
csv_step_unquoted_only(st, c) ==
    IF c = Comma
    THEN [ state |-> "UnquotedField", fields |-> new_field(st.fields) ]
    ELSE [ state |-> "UnquotedField", fields |-> push_char(st.fields, c) ]

\* the body of the for loop: the switch on state and on c
csv_step(st, c) ==
    CASE st.state = "UnquotedField" ->
           IF c = Comma
           THEN [ state |-> "UnquotedField", fields |-> new_field(st.fields) ]
           ELSE IF c = Quote
           THEN [ state |-> "QuotedField", fields |-> st.fields ]
           ELSE [ state |-> "UnquotedField",
                  fields |-> push_char(st.fields, c) ]
      [] st.state = "QuotedField" ->
           IF c = Quote
           THEN [ state |-> "QuotedQuote", fields |-> st.fields ]
           ELSE [ state |-> "QuotedField",
                  fields |-> push_char(st.fields, c) ]
      [] st.state = "QuotedQuote" ->
           IF c = Comma
           THEN [ state |-> "UnquotedField", fields |-> new_field(st.fields) ]
           ELSE IF c = Quote
           THEN [ state |-> "QuotedField",
                  fields |-> push_char(st.fields, c) ]
           ELSE [ state |-> "UnquotedField", fields |-> st.fields ]

RECURSIVE csv_scan(_, _, _)
csv_scan(row, k, st) ==
    IF k > Len(row) THEN st ELSE csv_scan(row, k + 1, csv_step(st, row[k]))

\* CSVState state = UnquotedField; std::vector<std::string> fields {""};
parse_csv_row(row) ==
    csv_scan(row, 1, [ state |-> "UnquotedField", fields |-> << << >> >> ]).fields

\* one call of parse_csv_row
ParseCsvRow ==
    /\ pc = "csv"
    /\ csv_fields' = parse_csv_row(csv_row)
    /\ pc' = "csv_done"
    /\ UNCHANGED << cfgVars, waiter, cls_in, cls_out, csv_row, toolVars, queue,
                    workers, pf_inflight, map_inflight, results, idx, hi, lo,
                    bounding_boxes, volumes, counters, out, exit_status,
                    empty_ret, ran, tested, submitted, completed, taken,
                    threw, empty_snap >>

\* the characters of the lines: the comma, the double quote and a letter
Chars == { Comma, Quote, "a" }

Lines == UNION { [ 1 .. n -> Chars ] : n \in 0 .. MaxChars }

InitCsv ==
    /\ InitNoChecker
    /\ InitNoTool
    /\ solid_shapes = << >>
    /\ geometry = << >>
    /\ InitNoGlue
    /\ InitNoQueue
    /\ csv_row \in Lines
    /\ csv_fields = << >>
    /\ pc = "csv"

NextCsv == ParseCsvRow

SpecCsv == InitCsv /\ [][NextCsv]_vars

(***************************************************************************)
(* Properties of parse_csv_row.  A character is inside quotes when an odd  *)
(* number of double quotes precedes it.                                    *)
(***************************************************************************)
QuotesBefore(row, k) ==
    Cardinality({ j \in 1 .. k - 1 : row[j] = Quote })

Inside(row, k) == QuotesBefore(row, k) % 2 = 1

OutsideCommas(row) ==
    { k \in 1 .. Len(row) : row[k] = Comma /\ ~ Inside(row, k) }

InsideCommas(row) ==
    { k \in 1 .. Len(row) : row[k] = Comma /\ Inside(row, k) }

\* the second quote of a doubled quote in a quoted field
DoubledQuotes(row) ==
    { k \in 2 .. Len(row) :
        /\ row[k] = Quote
        /\ row[k - 1] = Quote
        /\ Inside(row, k - 1) }

\* the field a character at k goes to
FieldAt(row, k) ==
    1 + Cardinality({ j \in OutsideCommas(row) : j < k })

CountIn(field, c) == Cardinality({ j \in 1 .. Len(field) : field[j] = c })

\* C24: parse_csv_row returns at least one field, one more than there are
\* commas outside quotes; every comma inside quotes, and no other, is a
\* character of the field it stands in; and every doubled quote in a quoted
\* field, and no other quote, gives one quote character in its field
C24_FieldsPerComma ==
    pc = "csv_done" =>
        /\ Len(csv_fields) >= 1
        /\ Len(csv_fields) = 1 + Cardinality(OutsideCommas(csv_row))
        /\ \A f \in 1 .. Len(csv_fields) :
             /\ CountIn(csv_fields[f], Comma) =
                   Cardinality({ k \in InsideCommas(csv_row) :
                                   FieldAt(csv_row, k) = f })
             /\ CountIn(csv_fields[f], Quote) =
                   Cardinality({ k \in DoubledQuotes(csv_row) :
                                   FieldAt(csv_row, k) = f })

\* the line ,""","  has one comma outside quotes, a doubled quote and a comma
\* in the quoted field: two fields, the second one a quote and a comma
C24_Witness ==
    /\ pc = "csv_done"
    /\ csv_row = << Comma, Quote, Quote, Quote, Comma, Quote >>
    /\ csv_fields = << << >>, << Quote, Comma >> >>

(***************************************************************************)
(* The helpers used by two threads, with their condition variables: main   *)
(* submits, and a second thread calls wait(), or empty() and get() in a    *)
(* loop, at any moment.  Every member function holds the mutex from its    *)
(* first statement to its return or to cond.wait, so each is one step up   *)
(* to the point where it blocks.                                           *)
(***************************************************************************)
BarrierInUse == pc \in { "pf_submit", "pf_count", "pf_wait" }

MapInUse == pc \in { "sched", "map_count", "drain" }

\* parfor::wait, lines 51-56: called, or woken in cond.wait
WaiterPfWait ==
    /\ BarrierInUse
    /\ waiter \in { NoWaiter, Woken("parfor.cond") }
    /\ waiter' = IF parfor_wait_returns(pf_inflight)
                 THEN WaiterAt("returned")
                 ELSE Blocked("parfor.cond")
    /\ UNCHANGED << cfgVars, clsVars, toolVars, queue, workers, pf_inflight,
                    map_inflight, results, pc, idx, hi, lo, bounding_boxes,
                    volumes, counters, out, exit_status, empty_ret, empty_snap, ran, tested,
                    submitted, completed, taken, threw >>

\* asyncmap::wait, lines 97-102: called, or woken in cond_done.wait
WaiterMapWait ==
    /\ MapInUse
    /\ waiter \in { NoWaiter, Woken("cond_done") }
    /\ waiter' = IF asyncmap_wait_returns(map_inflight)
                 THEN WaiterAt("returned")
                 ELSE Blocked("cond_done")
    /\ UNCHANGED << cfgVars, clsVars, toolVars, queue, workers, pf_inflight,
                    map_inflight, results, pc, idx, hi, lo, bounding_boxes,
                    volumes, counters, out, exit_status, empty_ret, empty_snap, ran, tested,
                    submitted, completed, taken, threw >>

\* while (!map.empty()): asyncmap::empty, lines 121-124
WaiterEmpty ==
    /\ MapInUse
    /\ waiter \in { NoWaiter, WaiterAt("empty") }
    /\ IF asyncmap_empty(results, map_inflight)
       THEN /\ empty_ret' = "true"
            /\ waiter' = WaiterAt("returned")
       ELSE /\ empty_ret' = "false"
            /\ waiter' = WaiterAt("get")
    /\ empty_snap' = Outstanding
    /\ UNCHANGED << cfgVars, clsVars, toolVars, queue, workers, pf_inflight,
                    map_inflight, results, pc, idx, hi, lo, bounding_boxes,
                    volumes, counters, out, exit_status, ran, tested,
                    submitted, completed, taken, threw >>

\* map.get(), lines 126-134: called, or woken in cond_res.wait
WaiterGet ==
    /\ MapInUse
    /\ waiter \in { WaiterAt("get"), Woken("cond_res") }
    /\ IF results = << >>
       THEN /\ waiter' = Blocked("cond_res")
            /\ UNCHANGED << results, taken >>
       ELSE /\ taken' = Append(taken, asyncmap_get(results))
            /\ results' = asyncmap_pop(results)
            /\ waiter' = WaiterAt("empty")
    /\ UNCHANGED << cfgVars, clsVars, toolVars, queue, workers, pf_inflight,
                    map_inflight, pc, idx, hi, lo, bounding_boxes,
                    volumes, counters, out, exit_status, empty_ret, empty_snap, ran, tested,
                    submitted, completed, threw >>

\* cond.wait may return without a notification
SpuriousWake ==
    /\ waiter.at = "blocked"
    /\ waiter' = Woken(waiter.cond)
    /\ UNCHANGED << cfgVars, clsVars, toolVars, queue, workers, pf_inflight,
                    map_inflight, results, pc, idx, hi, lo, bounding_boxes,
                    volumes, counters, out, exit_status, empty_ret, empty_snap, ran, tested,
                    submitted, completed, taken, threw >>

\* main at the barrier group or at the async map
InitWake == Init \/ InitMap

\* the submitting thread
MainWake ==
    \/ PfSubmit
    \/ PfCount
    \/ PfLoopEnd
    \/ SchedSkip
    \/ SchedSubmit
    \/ MapCount
    \/ SchedEnd

\* worker thread w; no task throws
WorkerWake(w) ==
    \/ WorkerTake(w)
    \/ RunThunk(w)
    \/ RunClassifyMap(w)

\* the waiting or consuming thread
WaiterWake ==
    \/ WaiterPfWait
    \/ WaiterMapWait
    \/ WaiterEmpty
    \/ WaiterGet

NextWake ==
    \/ MainWake
    \/ \E w \in 1 .. num_workers : WorkerWake(w)
    \/ WaiterWake
    \/ SpuriousWake

SpecWake == InitWake /\ [][NextWake]_vars

\* every thread that can run does run: main, each worker (so every task is
\* taken and terminates) and the second thread when it is not blocked; a
\* wake-up without notification may never come
FairWake ==
    /\ WF_vars(MainWake)
    /\ \A w \in 1 .. MaxWorkers : WF_vars(w <= num_workers /\ WorkerWake(w))
    /\ WF_vars(WaiterWake)

SpecWakeFair == SpecWake /\ FairWake

InWait == waiter.at \in { "blocked", "woken" }

\* C25: the second thread does not stay for ever in wait(), nor in a get()
\* it called after empty() returned false
C25_NoLostWakeup == InWait ~> ~ InWait

\* C26: the in-flight counter of the barrier group and of the async map is
\* never below zero and equals the tasks submitted (enqueued, or enqueued and
\* counted) minus the tasks completed
C26_CounterNeverUnderflows ==
    /\ pf_inflight >= 0
    /\ map_inflight >= 0
    /\ \/ pf_inflight = idx - Cardinality(ran)
       \/ pf_inflight = Len(queue) + Cardinality({ w \in 1 .. num_workers :
                                        workers[w].kind = "thunk" })
    /\ \/ map_inflight = counters.to_process - Len(completed)
       \/ map_inflight = Len(submitted) - Len(completed)

(***************************************************************************)
(* main with its threads scheduled fairly: main runs when it can, and so   *)
(* does every worker of the pool.                                          *)
(***************************************************************************)
\* worker thread w of main
WorkerNext(w) ==
    \/ WorkerTake(w)
    \/ RunThunk(w)
    \/ RunClassify(w)

\* the main thread
MainNext ==
    \/ PfSubmit
    \/ PfCount
    \/ PfLoopEnd
    \/ PfWait
    \/ SchedSkip
    \/ SchedSubmit
    \/ MapCount
    \/ SchedEnd
    \/ DrainMore
    \/ Get
    \/ DrainEnd

FairMain ==
    /\ WF_vars(MainNext)
    /\ \A w \in 1 .. MaxWorkers : WF_vars(w <= num_workers /\ WorkerNext(w))

SpecLive == Spec /\ FairMain

\* the reporting loop neither calls get() with nothing outstanding nor ends
\* with something outstanding, and at its end every pair was processed
LoopExact ==
    /\ pc = "get" => Len(taken) < Len(submitted)
    /\ pc = "done" =>
         /\ Len(taken) = Len(submitted)
         /\ counters.processed = counters.to_process
         /\ counters.to_process = Len(submitted)
         /\ { PairOf(taken[k]) : k \in 1 .. Len(taken) } =
               { submitted[k] : k \in 1 .. Len(submitted) }

Vertex(k) == << "vertex", k >>

Edge(k) == << "edge", k >>

Face(k) == << "face", k >>

\* NCollection_DataMap::Bind: the item replaces one bound before
Bind(map, key, item) ==
    [ x \in DOMAIN map \cup { key } |-> IF x = key THEN item ELSE map[x] ]

IsBound(map, key) == key \in DOMAIN map

\* one more call of myOrigins.Bind(key, ...)
Called(log, key) ==
    Bind(log, key, IF IsBound(log, key) THEN log[key] + 1 ELSE 1)

\* VertexSelector and bounding_tree.Select: the indices of the vertices
\* whose sphere is not out of the sphere of v, that of v among them
Nearby(g, v) == { u \in 1 .. g.verticies : u = v \/ { u, v } \in g.near }

\* a round of the flood fill that leaves out the vertices already in result
flood_remaining_new_only(g, processing, result) ==
    UNION { (Nearby(g, v) \ processing) \ result : v \in processing \ result }

\* TColStd_MapOfInteger remaining of one round of the flood fill
flood_remaining(g, processing, result) ==
    UNION { Nearby(g, v) \ processing : v \in processing \ result }

\* if (verticies.IsEmpty()) throw std::runtime_error
DetectNoVertices ==
    /\ pc = "vertices"
    /\ geometry.verticies = 0
    /\ pc' = "detect_error"
    /\ exit_status' = 1
    /\ UNCHANGED << cfgVars, clsVars, waiter, geometry, queueVars, running,
                    destroyed,
                    rows, nread, failed_rows, out_shapes, written, applied,
                    queue, workers, pf_inflight, map_inflight, results, idx,
                    hi, lo, bounding_boxes, volumes, counters, out,
                    empty_ret, ran, tested, submitted, completed, taken,
                    threw, empty_snap, glueVars >>

\* if (processed.Contains(i_vertex)) continue;
VertexSkip ==
    /\ pc = "vertices"
    /\ ~ flood.filling
    /\ flood.i_vertex <= geometry.verticies
    /\ flood.i_vertex \in flood.processed
    /\ flood' = [ flood EXCEPT !.i_vertex = @ + 1 ]
    /\ UNCHANGED << pc, exit_status, myOrigins, myImages, binds >>
    /\ UNCHANGED << cfgVars, clsVars, waiter, geometry, queueVars, running,
                    destroyed,
                    rows, nread, failed_rows, out_shapes, written, applied,
                    queue, workers, pf_inflight, map_inflight, results, idx,
                    hi, lo, bounding_boxes, volumes, counters, out,
                    empty_ret, ran, tested, submitted, completed, taken,
                    threw, empty_snap >>

\* TopTools_MapOfShape result; processing.Add(i_vertex);
FloodBegin ==
    /\ pc = "vertices"
    /\ ~ flood.filling
    /\ flood.i_vertex <= geometry.verticies
    /\ flood.i_vertex \notin flood.processed
    /\ flood' = [ flood EXCEPT !.filling = TRUE,
                               !.processing = { flood.i_vertex },
                               !.result = { } ]
    /\ UNCHANGED << pc, exit_status, myOrigins, myImages, binds >>
    /\ UNCHANGED << cfgVars, clsVars, waiter, geometry, queueVars, running,
                    destroyed,
                    rows, nread, failed_rows, out_shapes, written, applied,
                    queue, workers, pf_inflight, map_inflight, results, idx,
                    hi, lo, bounding_boxes, volumes, counters, out,
                    empty_ret, ran, tested, submitted, completed, taken,
                    threw, empty_snap >>

\* one round of for(;;) that does not break
FloodRound ==
    /\ pc = "vertices"
    /\ flood.filling
    /\ LET remaining == flood_remaining(geometry, flood.processing,
                                        flood.result)
       IN /\ remaining # { }
          /\ flood' = [ flood EXCEPT
                          !.processed = @ \cup flood.processing,
                          !.result = @ \cup flood.processing,
                          !.processing = remaining ]
    /\ UNCHANGED << pc, exit_status, myOrigins, myImages, binds >>
    /\ UNCHANGED << cfgVars, clsVars, waiter, geometry, queueVars, running,
                    destroyed,
                    rows, nread, failed_rows, out_shapes, written, applied,
                    queue, workers, pf_inflight, map_inflight, results, idx,
                    hi, lo, bounding_boxes, volumes, counters, out,
                    empty_ret, ran, tested, submitted, completed, taken,
                    threw, empty_snap >>

\* myOrigins.Bind(it.Key(), vertex) for every member of result
BindAll(map, members, vertex) ==
    [ x \in DOMAIN map \cup { Vertex(k) : k \in members } |->
        IF x \in { Vertex(k) : k \in members } THEN Vertex(vertex) ELSE map[x] ]

CalledAll(log, members) ==
    [ x \in DOMAIN log \cup { Vertex(k) : k \in members } |->
        (IF x \in DOMAIN log THEN log[x] ELSE 0)
        + (IF x \in { Vertex(k) : k \in members } THEN 1 ELSE 0) ]

\* the round that breaks, processed.Add(i_vertex), and the binding of the
\* members of result to its first key, which is any of them
FloodBreak ==
    /\ pc = "vertices"
    /\ flood.filling
    /\ flood_remaining(geometry, flood.processing, flood.result) = { }
    /\ IF flood.result = { }
       THEN UNCHANGED << myOrigins, myImages, binds >>
       ELSE \E vertex \in flood.result :
              /\ myOrigins' = BindAll(myOrigins, flood.result, vertex)
              /\ myImages' = Bind(myImages, Vertex(vertex),
                                  { Vertex(k) : k \in flood.result })
              /\ binds' = CalledAll(binds, flood.result)
    /\ flood' = [ flood EXCEPT !.processed = @ \cup { flood.i_vertex },
                               !.i_vertex = @ + 1,
                               !.filling = FALSE,
                               !.processing = { },
                               !.result = { } ]
    /\ UNCHANGED << pc, exit_status >>
    /\ UNCHANGED << cfgVars, clsVars, waiter, geometry, queueVars, running,
                    destroyed,
                    rows, nread, failed_rows, out_shapes, written, applied,
                    queue, workers, pf_inflight, map_inflight, results, idx,
                    hi, lo, bounding_boxes, volumes, counters, out,
                    empty_ret, ran, tested, submitted, completed, taken,
                    threw, empty_snap >>

\* the end of the for loop over the vertices; DetectShapes(TopAbs_EDGE) next
VerticesDone ==
    /\ pc = "vertices"
    /\ ~ flood.filling
    /\ geometry.verticies > 0
    /\ flood.i_vertex > geometry.verticies
    /\ pc' = "edges"
    /\ UNCHANGED << exit_status, glueVars >>
    /\ UNCHANGED << cfgVars, clsVars, waiter, geometry, queueVars, running,
                    destroyed,
                    rows, nread, failed_rows, out_shapes, written, applied,
                    queue, workers, pf_inflight, map_inflight, results, idx,
                    hi, lo, bounding_boxes, volumes, counters, out,
                    empty_ret, ran, tested, submitted, completed, taken,
                    threw, empty_snap >>

(***************************************************************************)
(* DetectShapes.                                                           *)
(***************************************************************************)
Range(list) == { list[k] : k \in 1 .. Len(list) }

\* BRep_Tool::Degenerated for an edge; a face is never asked
Degenerated(g, shape) ==
    shape[1] = "edge" /\ g.edges[shape[2]].degenerated

\* TopExp::MapShapes(myArgument, type, aMF)
MapShapes(g, type) ==
    IF type = "edge"
    THEN [ k \in 1 .. Len(g.edges) |-> Edge(k) ]
    ELSE [ k \in 1 .. Len(g.faces) |-> Face(k) ]

\* the sub-shapes ShapePassKey explores: the vertices of an edge, the edges
\* of a face that are not degenerated
Parts(g, shape) ==
    IF shape[1] = "edge"
    THEN { Vertex(v) : v \in g.edges[shape[2]].ends }
    ELSE { Edge(e) : e \in { x \in g.faces[shape[2]] :
                               ~ g.edges[x].degenerated } }

\* gluedetector::ShapePassKey: the parts, each replaced by its origin if
\* it has one; MultiShapeKey compares the keys as sets
ShapePassKey(g, origins, shape) ==
    { IF IsBound(origins, p) THEN origins[p] ELSE p : p \in Parts(g, shape) }

RECURSIVE group_by_key(_, _, _, _, _)
\* the first loop of DetectShapes: coincident_shapes, in order of insertion
group_by_key(g, origins, shapes, k, buckets) ==
    IF k > Len(shapes)
    THEN buckets
    ELSE LET aPKF == ShapePassKey(g, origins, shapes[k])
             at == { i \in 1 .. Len(buckets) : buckets[i].key = aPKF }
         IN group_by_key(g, origins, shapes, k + 1,
               IF at # { }
               THEN [ i \in 1 .. Len(buckets) |->
                        IF i \in at
                        THEN [ buckets[i] EXCEPT
                                 !.list = Append(@, shapes[k]) ]
                        ELSE buckets[i] ]
               ELSE Append(buckets,
                           [ key |-> aPKF, list |-> << shapes[k] >> ]))

\* shape_merger::FindNearby: the others in their order, shape itself and
\* those on which the point of shape projects within the tolerance
FindNearby(shape, others, projects) ==
    LET IsNear(other) == other = shape \/ other \in projects[shape]
    IN SelectSeq(others, IsNear)

RECURSIVE find_pairwise(_, _, _, _, _, _)
\* the for loop of FindNearbyPairwise
find_pairwise(g, shapes, projects, k, processed, result) ==
    IF k > Len(shapes)
    THEN result
    ELSE IF shapes[k] \in processed
    THEN find_pairwise(g, shapes, projects, k + 1, processed, result)
    ELSE IF Degenerated(g, shapes[k])
    THEN find_pairwise(g, shapes, projects, k + 1,
                       processed \cup { shapes[k] }, result)
    ELSE LET nearby == FindNearby(shapes[k], shapes, projects)
         IN find_pairwise(g, shapes, projects, k + 1,
                          processed \cup Range(nearby),
                          Append(result, nearby))

\* shape_merger::FindNearbyPairwise: the lists added to result, in order;
\* one pass of the for loop processes every shape
FindNearbyPairwise(g, shapes, projects) ==
    IF Len(shapes) = 1
    THEN << >>
    ELSE find_pairwise(g, shapes, projects, 1, { }, << >>)

RECURSIVE refined_add(_, _, _)
\* refined.Add(found_it.Value().First(), found_it.Value()) for the lists
\* after the first: a list whose first shape is a key already is not added
refined_add(refined, found, j) ==
    IF j > Len(found)
    THEN refined
    ELSE refined_add(
           IF \E i \in 1 .. Len(refined) : refined[i][1] = found[j][1]
           THEN refined
           ELSE Append(refined, found[j]),
           found, j + 1)

RECURSIVE refine_from(_, _, _, _, _)
\* the loop of RefineCoincidentShapes over the lists of coincident_shapes
refine_from(g, lists, projects, i, refined) ==
    IF i > Len(lists)
    THEN lists \o refined
    ELSE LET found == FindNearbyPairwise(g, lists[i], projects)
         IN IF found = << >>
            THEN refine_from(g, lists, projects, i + 1, refined)
            ELSE refine_from(g, [ lists EXCEPT ![i] = found[1] ], projects,
                             i + 1, refined_add(refined, found, 2))

\* shape_merger::RefineCoincidentShapes: the lists of coincident_shapes
\* afterwards, those of refined added at the end
RefineCoincidentShapes(g, buckets, projects) ==
    refine_from(g, [ i \in 1 .. Len(buckets) |-> buckets[i].list ],
                projects, 1, << >>)

RECURSIVE bind_dups(_, _, _)
\* for (dup : dups) if (!myOrigins.IsBound(dup)) myOrigins.Bind(dup, shape)
bind_dups(st, dups, k) ==
    IF k > Len(dups)
    THEN st
    ELSE bind_dups(
           IF IsBound(st.origins, dups[k])
           THEN st
           ELSE [ st EXCEPT !.origins = Bind(@, dups[k], dups[1]),
                            !.binds = Called(@, dups[k]) ],
           dups, k + 1)

RECURSIVE bind_groups(_, _, _, _)
\* the last loop of DetectShapes, over the lists of coincident_shapes
bind_groups(g, st, lists, i) ==
    IF i > Len(lists)
    THEN st
    ELSE LET dups == lists[i]
         IN IF Len(dups) = 1 \/ Degenerated(g, dups[1])
            THEN bind_groups(g, st, lists, i + 1)
            ELSE bind_groups(g,
                   bind_dups([ st EXCEPT
                                 !.images = Bind(@, dups[1], Range(dups)) ],
                             dups, 1),
                   lists, i + 1)

\* what ProjectPointOnShape and the distance test may answer: for every
\* shape, the shapes of its list, other than itself and not degenerated, on
\* which its point projects within the tolerance
Projections(g, buckets) ==
    LET shapes == UNION { Range(buckets[i].list) : i \in 1 .. Len(buckets) }
        Others(s) ==
          UNION { { o \in Range(buckets[i].list) :
                      o # s /\ ~ Degenerated(g, o) } :
                  i \in { j \in 1 .. Len(buckets) :
                            s \in Range(buckets[j].list) } }
    IN { f \in [ shapes -> SUBSET shapes ] :
           \A s \in shapes : f[s] \subseteq Others(s) }

\* gluedetector::DetectShapes(type)
DetectShapes(type, at, then) ==
    /\ pc = at
    /\ LET buckets == group_by_key(geometry, myOrigins,
                                   MapShapes(geometry, type), 1, << >>)
       IN \E projects \in Projections(geometry, buckets) :
            LET lists == RefineCoincidentShapes(geometry, buckets, projects)
                st == bind_groups(geometry,
                                  [ origins |-> myOrigins,
                                    images |-> myImages,
                                    binds |-> binds ],
                                  lists, 1)
            IN /\ myOrigins' = st.origins
               /\ myImages' = st.images
               /\ binds' = st.binds
    /\ pc' = then
    /\ UNCHANGED << exit_status, flood >>
    /\ UNCHANGED << cfgVars, clsVars, waiter, geometry, queueVars, running,
                    destroyed,
                    rows, nread, failed_rows, out_shapes, written, applied,
                    queue, workers, pf_inflight, map_inflight, results, idx,
                    hi, lo, bounding_boxes, volumes, counters, out,
                    empty_ret, ran, tested, submitted, completed, taken,
                    threw, empty_snap >>

DetectEdges == DetectShapes("edge", "edges", "faces")

DetectFaces == DetectShapes("face", "faces", "detected")

\* the arguments tried
VertexPairs(n) ==
    { { a, b } : a \in 1 .. n, b \in 1 .. n } \ { { a } : a \in 1 .. n }

\* an argument of n vertices without edges and faces, and the one without
\* any vertex
VertexArguments ==
    UNION { { [ verticies |-> n, near |-> nr,
                edges |-> << >>, faces |-> << >> ] :
                nr \in SUBSET VertexPairs(n) } : n \in 0 .. MaxVerts }

\* the vertices of the arguments that have edges and faces
GlueVerts == 2

\* an edge between two vertices or closed on one, and the degenerated edge
EdgeKinds(n) ==
    { [ ends |-> e, degenerated |-> FALSE ] : e \in SUBSET (1 .. n) \ { { } } }
    \cup { [ ends |-> { 1 }, degenerated |-> TRUE ] }

\* a face on one edge, and the face on all edges
FaceKinds(m) == { { e } : e \in 1 .. m } \cup ({ 1 .. m } \ { { } })

ShapeArguments ==
    UNION { UNION { UNION {
        { [ verticies |-> n, near |-> nr, edges |-> es, faces |-> fs ] :
            nr \in SUBSET VertexPairs(n),
            fs \in UNION { [ 1 .. f -> FaceKinds(Len(es)) ] :
                             f \in 0 .. MaxFaces } } :
        es \in [ 1 .. m -> EdgeKinds(n) ] } :
        m \in 0 .. MaxEdges } :
        n \in 1 .. GlueVerts }

InitDetector ==
    /\ InitNoChecker
    /\ InitNoCsv
    /\ InitNoTool
    /\ solid_shapes = << >>
    /\ InitNoGlue
    /\ InitNoQueue
    /\ pc = "vertices"

InitVertices ==
    /\ InitDetector
    /\ geometry \in VertexArguments

NextVertices ==
    \/ DetectNoVertices
    \/ VertexSkip
    \/ FloodBegin
    \/ FloodRound
    \/ FloodBreak
    \/ VerticesDone

SpecVertices == InitVertices /\ [][NextVertices]_vars

\* DetectVertices runs on
SpecVerticesFair == SpecVertices /\ WF_vars(NextVertices)

InitGlue ==
    /\ InitDetector
    /\ geometry \in VertexArguments \cup ShapeArguments
    /\ geometry.verticies <= GlueVerts

NextGlue ==
    \/ DetectNoVertices
    \/ VertexSkip
    \/ FloodBegin
    \/ FloodRound
    \/ FloodBreak
    \/ VerticesDone
    \/ DetectEdges
    \/ DetectFaces

SpecGlue == InitGlue /\ [][NextGlue]_vars

(***************************************************************************)
(* Properties of the detection.                                            *)
(***************************************************************************)
RECURSIVE Grow(_, _)
Grow(g, set) ==
    LET next == UNION { Nearby(g, u) : u \in set }
    IN IF next = set THEN set ELSE Grow(g, next)

\* the vertices linked to v by a chain of near vertices
Component(g, v) == Grow(g, { v })

VerticesEnded == pc = "edges"

ComponentsBound ==
    VerticesEnded =>
      \A v \in 1 .. geometry.verticies :
        /\ \A u \in Component(geometry, v) \ { v } :
             /\ IsBound(myOrigins, Vertex(u))
             /\ IsBound(myOrigins, Vertex(v))
             /\ myOrigins[Vertex(u)] = myOrigins[Vertex(v)]
        /\ Nearby(geometry, v) = { v } => ~ IsBound(myOrigins, Vertex(v))
        /\ IsBound(myOrigins, Vertex(v)) =>
             /\ binds[Vertex(v)] = 1
             /\ myOrigins[Vertex(v)] \in
                  { Vertex(u) : u \in Component(geometry, v) }

\* C29: DetectVertices ends, and then two vertices linked by a chain of near
\* vertices are bound to the same representative, a vertex of their
\* component; every vertex was bound at most once; and a vertex near no other
\* is not bound
C29_VertexComponents ==
    /\ [] ComponentsBound
    /\ <>(pc # "vertices")

\* four vertices, 1 near 2 and 2 near 3 only: 1, 2 and 3 have one
\* representative and 4 has none
C29_Witness ==
    /\ VerticesEnded
    /\ geometry.verticies = 4
    /\ geometry.near = { { 1, 2 }, { 2, 3 } }
    /\ myOrigins[Vertex(1)] = myOrigins[Vertex(3)]
    /\ myOrigins[Vertex(2)] = myOrigins[Vertex(3)]
    /\ ~ IsBound(myOrigins, Vertex(4))

Clusters == { rep \in DOMAIN myImages : Cardinality(myImages[rep]) >= 2 }

\* C28: after detection every member of every cluster is bound in myOrigins
\* to the representative of the cluster, and a sub-shape that is in no
\* cluster of two or more is not bound
C28_OriginToRepresentative ==
    pc = "detected" =>
      /\ \A rep \in DOMAIN myImages :
           \A member \in myImages[rep] :
             /\ IsBound(myOrigins, member)
             /\ myOrigins[member] = rep
      /\ \A shape \in DOMAIN myOrigins :
           \E rep \in Clusters : shape \in myImages[rep]

(***************************************************************************)
(* The checker with a worker_queue: main fills the input queue, launches   *)
(* the worker threads, takes one output per pair and joins the threads.    *)
(***************************************************************************)
\* what this checker leaves alone
besideQueue ==
    << cfgVars, clsVars, waiter, geometry, glueVars, running, destroyed,
       rows, nread, failed_rows, out_shapes, written, applied, queue,
       workers, pf_inflight, map_inflight, results, idx, bounding_boxes,
       volumes, empty_ret, ran, threw, empty_snap >>

\* a worker thread and the pair it holds
Thread(at, h, l) == [ at |-> at, hi |-> h, lo |-> l ]

\* next_input without input.pop_front()
wq_pop_keep(input) == input

\* input.pop_front()
wq_pop(input) == Tail(input)

\* the for loop over fuzzy_values in the worker: the first result that is
\* not failed, or the last one
RECURSIVE queue_result(_, _)
queue_result(attempts, k) ==
    IF k = Len(attempts) \/ attempts[k].status # "failed"
    THEN attempts[k]
    ELSE queue_result(attempts, k + 1)

\* results of classify_solid_intersection: a failure, a result without a
\* volume and a result with one
QueueResults ==
    { IR("failed", DefaultFuzzy, VolUnset, VolUnset, VolUnset),
      IR("touching", DefaultFuzzy, VolUnset, VolUnset, VolUnset),
      IR("overlap", DefaultFuzzy, 50, 100, 100) }

\* the row the switch of main writes for one output
queue_rows(o, vols) ==
    CASE o.result.status = "touching" -> << << o.hi, o.lo, "touch" >> >>
      [] o.result.status = "overlap" ->
            << << o.hi, o.lo, overlap_state(o, vols) >> >>
      [] OTHER -> << >>

\* a pair whose boxes are disjoint: continue
QSkip ==
    /\ pc = "q_sched"
    /\ hi < N
    /\ are_bboxs_disjoint(bounding_boxes[hi + 1], bounding_boxes[lo + 1],
                          bbox_clearance)
    /\ counters' = [ counters EXCEPT !.bbox_tests = @ + 1 ]
    /\ tested' = Append(tested, << hi, lo >>)
    /\ hi' = next_hi(hi, lo)
    /\ lo' = next_lo(hi, lo)
    /\ UNCHANGED << besideQueue, queueVars, pc, out, exit_status, submitted,
                    completed, taken >>

\* queue.add_work(work)
QAddWork ==
    /\ pc = "q_sched"
    /\ hi < N
    /\ ~ are_bboxs_disjoint(bounding_boxes[hi + 1], bounding_boxes[lo + 1],
                            bbox_clearance)
    /\ counters' = [ counters EXCEPT !.bbox_tests = @ + 1 ]
    /\ tested' = Append(tested, << hi, lo >>)
    /\ wq' = [ wq EXCEPT !.input = Append(@, << hi, lo >>) ]
    /\ submitted' = Append(submitted, << hi, lo >>)
    /\ hi' = next_hi(hi, lo)
    /\ lo' = next_lo(hi, lo)
    /\ UNCHANGED << besideQueue, threads, qmain, handed, pc, out,
                    exit_status, completed, taken >>

\* size_t remain = queue.input_size();
QLoopEnd ==
    /\ pc = "q_sched"
    /\ hi >= N
    /\ qmain' = [ qmain EXCEPT !.remain = Len(wq.input) ]
    /\ pc' = "q_launch"
    /\ UNCHANGED << besideQueue, wq, threads, handed, hi, lo, counters, out,
                    exit_status, tested, submitted, completed, taken >>

\* threads.emplace_back(shape_classifier, ...): one more thread runs
QLaunch ==
    /\ pc = "q_launch"
    /\ qmain.launched < num_workers
    /\ threads' = Append(threads, Thread("next_input", 0, 0))
    /\ qmain' = [ qmain EXCEPT !.launched = @ + 1 ]
    /\ pc' = IF qmain.launched + 1 = num_workers THEN "q_recv" ELSE pc
    /\ UNCHANGED << besideQueue, wq, handed, hi, lo, counters, out,
                    exit_status, tested, submitted, completed, taken >>

\* while (queue.next_input(input)): the thread takes the pair at the front,
\* or leaves the loop and exits
QNextInput(w) ==
    /\ threads[w].at = "next_input"
    /\ IF wq.input = << >>
       THEN /\ threads' = [ threads EXCEPT ![w] = Thread("exited", 0, 0) ]
            /\ UNCHANGED << wq, handed >>
       ELSE LET work == Head(wq.input)
            IN /\ wq' = [ wq EXCEPT !.input = wq_pop(@) ]
               /\ threads' = [ threads EXCEPT
                                 ![w] = Thread("classify", work[1], work[2]) ]
               /\ handed' = Append(handed, << w, work[1], work[2] >>)
    /\ UNCHANGED << besideQueue, qmain, pc, hi, lo, counters, out,
                    exit_status, tested, submitted, completed, taken >>

\* the pair is classified and queue.add_output(output) stores the output
QClassify(w) ==
    /\ threads[w].at = "classify"
    /\ \E attempts \in [ 1 .. Len(fuzzy_values) -> QueueResults ] :
         LET o == Output(threads[w].hi, threads[w].lo,
                         queue_result(attempts, 1))
         IN /\ wq' = [ wq EXCEPT !.output = Append(@, o) ]
            /\ completed' = Append(completed, o)
    /\ threads' = [ threads EXCEPT ![w].at = "notify" ]
    /\ UNCHANGED << besideQueue, qmain, handed, pc, hi, lo, counters, out,
                    exit_status, tested, submitted, taken >>

\* mlock.unlock(); cond.notify_one();
QNotify(w) ==
    /\ threads[w].at = "notify"
    /\ qmain' = [ qmain EXCEPT
                    !.wait = IF @ = "blocked" THEN "woken" ELSE @ ]
    /\ threads' = [ threads EXCEPT ![w] = Thread("next_input", 0, 0) ]
    /\ UNCHANGED << besideQueue, wq, handed, pc, hi, lo, counters, out,
                    exit_status, tested, submitted, completed, taken >>

\* while (remain--): one more output is awaited
QRecvCall ==
    /\ pc = "q_recv"
    /\ qmain.remain > 0
    /\ qmain' = [ qmain EXCEPT !.remain = @ - 1 ]
    /\ pc' = "q_next_output"
    /\ UNCHANGED << besideQueue, wq, threads, handed, hi, lo, counters, out,
                    exit_status, tested, submitted, completed, taken >>

\* queue.next_output(), called or woken in cond.wait, and the body of the
\* loop of main
QNextOutput ==
    /\ pc = "q_next_output"
    /\ qmain.wait \in { "no", "woken" }
    /\ IF wq.output = << >>
       THEN /\ qmain' = [ qmain EXCEPT !.wait = "blocked" ]
            /\ UNCHANGED << wq, taken, counters, out, pc >>
       ELSE LET o == Head(wq.output)
            IN /\ wq' = [ wq EXCEPT !.output = Tail(@) ]
               /\ taken' = Append(taken, o)
               /\ counters' = CountersAfter(counters, o, volumes)
               /\ out' = out \o queue_rows(o, volumes)
               /\ qmain' = [ qmain EXCEPT !.wait = "no" ]
               /\ pc' = "q_recv"
    /\ UNCHANGED << besideQueue, threads, handed, hi, lo, exit_status,
                    tested, submitted, completed >>

\* cond.wait may return without a notification
QSpuriousWake ==
    /\ qmain.wait = "blocked"
    /\ qmain' = [ qmain EXCEPT !.wait = "woken" ]
    /\ UNCHANGED << besideQueue, wq, threads, handed, pc, hi, lo, counters,
                    out, exit_status, tested, submitted, completed, taken >>

\* remain is 0: the loop is left
QRecvEnd ==
    /\ pc = "q_recv"
    /\ qmain.remain = 0
    /\ pc' = "q_join"
    /\ UNCHANGED << besideQueue, queueVars, hi, lo, counters, out,
                    exit_status, tested, submitted, completed, taken >>

\* thread.join() returns when the thread has exited; after the last one
\* main returns
QJoin ==
    /\ pc = "q_join"
    /\ qmain.joined < num_workers
    /\ threads[qmain.joined + 1].at = "exited"
    /\ qmain' = [ qmain EXCEPT !.joined = @ + 1 ]
    /\ IF qmain.joined + 1 = num_workers
       THEN /\ pc' = "done"
            /\ exit_status' = ExitCode(counters.failed, counters.bad_overlaps)
       ELSE UNCHANGED << pc, exit_status >>
    /\ UNCHANGED << besideQueue, wq, threads, handed, hi, lo, counters, out,
                    tested, submitted, completed, taken >>

\* main after the bounding boxes and the volumes are computed, line 269
InitQueue ==
    /\ solid_shapes \in Docs
    /\ bbox_clearance \in Clearances
    /\ max_common_volume_ratio = RatioPct
    /\ fuzzy_values = DefaultLadder
    /\ num_workers \in 1 .. MaxWorkers
    /\ InitCommon
    /\ pc = "q_sched"
    /\ idx = Len(solid_shapes)
    /\ hi = 1
    /\ lo = 0
    /\ bounding_boxes = [ i \in 1 .. Len(solid_shapes) |->
                            AddOBB(solid_shapes[i]) ]
    /\ volumes = [ i \in 1 .. Len(solid_shapes) |->
                     volume_of_shape(solid_shapes[i]) ]
    /\ ran = { }
    /\ cls_in = << >>
    /\ cls_out = NoRun

\* the steps of main
QueueMain ==
    \/ QSkip
    \/ QAddWork
    \/ QLoopEnd
    \/ QLaunch
    \/ QRecvCall
    \/ QNextOutput
    \/ QRecvEnd
    \/ QJoin

\* the steps of the worker thread w
QueueThread(w) ==
    \/ QNextInput(w)
    \/ QClassify(w)
    \/ QNotify(w)

NextQueue ==
    \/ QueueMain
    \/ QSpuriousWake
    \/ \E w \in 1 .. Len(threads) : QueueThread(w)

SpecQueue == InitQueue /\ [][NextQueue]_vars

\* every thread that can run does run in the end; a wait need not return
\* without a notification
FairQueue ==
    /\ WF_vars(QueueMain)
    /\ \A w \in 1 .. MaxWorkers : WF_vars(w <= Len(threads) /\ QueueThread(w))

SpecQueueFair == SpecQueue /\ FairQueue

\* no element of the sequence occurs twice
NoDuplicates(seq) ==
    \A i, j \in 1 .. Len(seq) : seq[i] = seq[j] => i = j

\* the pairs the workers have taken, in the order of next_input
HandedPairs == [ k \in 1 .. Len(handed) |-> << handed[k][2], handed[k][3] >> ]

\* the pairs of a sequence of outputs
OutputPairs(outs) == [ k \in 1 .. Len(outs) |-> << outs[k].hi, outs[k].lo >> ]

QueueExact ==
    /\ NoDuplicates(submitted)
    /\ NoDuplicates(HandedPairs)
    /\ Range(HandedPairs) \subseteq Range(submitted)
    /\ NoDuplicates(OutputPairs(completed))
    /\ Range(OutputPairs(completed)) \subseteq Range(HandedPairs)
    /\ NoDuplicates(OutputPairs(taken))
    /\ Range(taken) \subseteq Range(completed)
    /\ pc \in { "q_join", "done" } =>
         /\ Len(taken) = Len(submitted)
         /\ counters.processed = Len(submitted)
         /\ Len(handed) = Len(submitted)
         /\ wq = [ input |-> << >>, output |-> << >> ]
    /\ pc = "done" =>
         /\ qmain.joined = num_workers
         /\ Len(threads) = num_workers
         /\ \A w \in 1 .. Len(threads) : threads[w].at = "exited"

\* C30: in the queue-based checker every enqueued pair is taken by exactly
\* one worker and yields exactly one output, which main consumes exactly
\* once; main receives as many outputs as pairs were enqueued, after which
\* every worker exits and the join completes, for any number of workers.
C30_QueueExactlyOnce == []QueueExact /\ <>(pc = "done")

\* the run has ended with three pairs, both of two workers having taken a
\* pair, and the outputs consumed in another order than the pairs were
\* enqueued
C30_Witness ==
    /\ pc = "done"
    /\ num_workers = 2
    /\ Len(submitted) = 3
    /\ { handed[k][1] : k \in 1 .. Len(handed) } = { 1, 2 }
    /\ OutputPairs(taken) # submitted

====
